---------------------------- MODULE Spec2Model ----------------------------
(***************************************************************************)
(* A model of the IT-support ticket analysis pipeline:                     *)
(*   utils/ai_analyzer.py  the reasoning adapter and the response validator *)
(*   utils/database.py     the store (tickets, processed_tickets, logs)     *)
(*   utils/jira_client.py  the tracker client                               *)
(*   app.py                the handlers behind the sidebar buttons          *)
(***************************************************************************)
EXTENDS Integers, Sequences, FiniteSets, TLC

VARIABLES
    raw,          \* the response text handed to _parse_ai_response
    parsed,       \* what _parse_ai_response returned for it
    pc,           \* position of a harness: "input" | "parsed" for the
                  \* validator, "submitted" | "analyzed" for the adapter
    model,        \* AIAnalyzer.model: "None" or the adopted model name
    batch,        \* the tickets last handed to analyze_tickets_batch
    backend,      \* how the backend answered each ticket of that batch
    results,      \* what analyze_tickets_batch returned for it
    calls,        \* generate_content calls made for it
    escaped,      \* whether an exception left analyze_tickets_batch
    tickets,      \* table tickets: a set of rows (id is the primary key)
    processed,    \* table processed_tickets, in processed_date order
    system_logs,  \* table system_logs, in insertion order
    clock,        \* int(datetime.now().timestamp()): the current second
    agent_feedback, \* table agent_feedback, in insertion order
    confirm_reset,  \* st.session_state.confirm_reset
    config,       \* Config.JIRA_URL, JIRA_EMAIL, JIRA_API_TOKEN
    requests,     \* how many requests have been sent to the tracker
    fetched,      \* what JiraClient.fetch_tickets returned last
    ticket_text,  \* the text handed to _classify_ticket
    classified,   \* what _classify_ticket returned for it
    runs,         \* how many times a button has been pressed
    last          \* what the last handler did and reported: the tables
                  \* before it, its counters, messages and events

parserVars   == <<raw, parsed, pc>>
analyzerVars == <<model, batch, backend, results, calls, escaped>>
storeVars    == <<tickets, processed, system_logs, clock, runs, last>>
sessionVars  == <<agent_feedback, confirm_reset>>
trackerVars  == <<config, requests, fetched, ticket_text, classified>>
vars == <<parserVars, analyzerVars, storeVars, sessionVars, trackerVars>>

-----------------------------------------------------------------------------
(* Python / JSON values.  Every value is a record of the same shape so that *)
(* values of different Python types can be compared:                        *)
(*   t  the type: "str" "int" "float" "bool" "null" "list"                  *)
(*   s  the text of a str                                                   *)
(*   n  the number: an int as itself, a float in hundredths, a bool as 0/1  *)
(*   l  the elements of a list (a solution is named by its title)           *)

Str(x)   == [t |-> "str",   s |-> x,  n |-> 0, l |-> <<>>]
IntV(k)  == [t |-> "int",   s |-> "", n |-> k, l |-> <<>>]
Flt(h)   == [t |-> "float", s |-> "", n |-> h, l |-> <<>>]
BoolV(b) == [t |-> "bool",  s |-> "", n |-> IF b THEN 1 ELSE 0, l |-> <<>>]
Null     == [t |-> "null",  s |-> "", n |-> 0, l |-> <<>>]
List(xs) == [t |-> "list",  s |-> "", n |-> 0, l |-> xs]

\* config.py: the enumerations
TICKET_CATEGORIES == {"Hardware", "Software", "Network", "Security", "General"}
PRIORITIES == {"Critical", "High", "Medium", "Low"}
\* the prompt's third enumeration ("risk_assessment": "Low|Medium|High")
RISK_LEVELS == {"Low", "Medium", "High"}

\* the ten fields of an analysis record, in the order the validator lists them
RequiredFields ==
    {"category", "priority", "confidence", "urgency_score", "complexity_score",
     "estimated_resolution_time", "suggested_solutions",
     "knowledge_base_search", "escalation_triggers", "risk_assessment"}

\* Numeric strings Python's float() accepts, with their value in hundredths.
FloatStrings == [s \in {"0.9", "7"} |-> IF s = "0.9" THEN 90 ELSE 700]
\* Numeric strings Python's int() accepts.
IntStrings == [s \in {"7"} |-> 7]

\* The outcome of a Python expression: a value, or an exception raised.
Ok(v)   == [raised |-> FALSE, exc |-> "", v |-> v]
Raise(e) == [raised |-> TRUE, exc |-> e, v |-> Null]

\* float(x)
PyFloat(x) ==
    CASE x.t = "float" -> Ok(x)
      [] x.t = "int"   -> Ok(Flt(x.n * 100))
      [] x.t = "bool"  -> Ok(Flt(x.n * 100))
      [] x.t = "str"   -> IF x.s \in DOMAIN FloatStrings
                          THEN Ok(Flt(FloatStrings[x.s]))
                          ELSE Raise("ValueError")
      [] OTHER         -> Raise("TypeError")

\* int(x): a float is truncated toward zero
PyInt(x) ==
    CASE x.t = "int"   -> Ok(x)
      [] x.t = "float" -> Ok(IntV(IF x.n >= 0 THEN x.n \div 100
                                              ELSE -((-x.n) \div 100)))
      [] x.t = "bool"  -> Ok(IntV(x.n))
      [] x.t = "str"   -> IF x.s \in DOMAIN IntStrings
                          THEN Ok(IntV(IntStrings[x.s]))
                          ELSE Raise("ValueError")
      [] OTHER         -> Raise("TypeError")

-----------------------------------------------------------------------------
(* Response texts.  A text is a sequence of tokens:                         *)
(*   "{" "}"   the braces the regular expression looks for                  *)
(*   "ws"      white space                                                  *)
(*   "prose"   any other text outside JSON syntax                           *)
(*   "member"  one  "key": value  member of a JSON object, separator        *)
(*             included; a nested object or array is part of the value      *)

Tok(c) == [c |-> c, key |-> "", val |-> Null]
Member(k, v) == [c |-> "member", key |-> k, val |-> v]
LB == Tok("{")
RB == Tok("}")
WS == Tok("ws")
PROSE == Tok("prose")

\* str.strip()
RECURSIVE lstrip(_)
lstrip(s) == IF s # <<>> /\ Head(s) = WS THEN lstrip(Tail(s)) ELSE s
RECURSIVE rstrip(_)
rstrip(s) ==
    IF s # <<>> /\ s[Len(s)] = WS THEN rstrip(SubSeq(s, 1, Len(s) - 1)) ELSE s
strip(s) == rstrip(lstrip(s))

\* re.search(r'\{.*\}', text, re.DOTALL): the leftmost "{" and, the star
\* being greedy and the dot matching newlines, the last "}" after it.
NoMatch == <<>>
re_search(text) ==
    LET opens  == {i \in 1..Len(text) : text[i] = LB}
        first  == CHOOSE i \in opens : \A j \in opens : i <= j
        closes == {j \in 1..Len(text) : text[j] = RB /\ j > first}
        lastc  == CHOOSE j \in closes : \A k \in closes : k <= j
    IN  IF opens = {} THEN NoMatch
        ELSE IF closes = {} THEN NoMatch
        ELSE SubSeq(text, first, lastc)

\* json.loads(json_str) for a string that starts with "{" and ends with "}":
\* an object whose members sit between the braces, white space allowed,
\* the last of two members with the same key winning; anything else between
\* the braces (prose, a further brace) is a JSONDecodeError.
json_loads(s) ==
    LET inner == SubSeq(s, 2, Len(s) - 1)
        good  == \A i \in 1..Len(inner) : inner[i].c \in {"member", "ws"}
        idx   == {i \in 1..Len(inner) : inner[i].c = "member"}
        keys  == {inner[i].key : i \in idx}
        lastOf(k) == CHOOSE i \in idx :
                        /\ inner[i].key = k
                        /\ \A j \in idx : inner[j].key = k => j <= i
    IN  IF good THEN [raised |-> FALSE, d |-> [k \in keys |-> inner[lastOf(k)].val]]
        ELSE [raised |-> TRUE, d |-> <<>>]

\* dict.get(key, default)
get(d, k, default) == IF k \in DOMAIN d THEN d[k] ELSE default


-----------------------------------------------------------------------------
(* utils/ai_analyzer.py: the validator                                      *)

\* A variant of the fallback record whose confidence is the table default.
Fallback_DefaultConfidence ==
    [category |-> Str("General"), priority |-> Str("Medium"),
     confidence |-> Flt(50), urgency_score |-> IntV(5),
     complexity_score |-> IntV(5),
     estimated_resolution_time |-> Str("Manual review required"),
     suggested_solutions |-> List(<<"Manual Review Required">>),
     knowledge_base_search |-> List(<<>>),
     escalation_triggers |-> List(<<"Manual review needed">>),
     risk_assessment |-> Str("Medium")]

\* AIAnalyzer._create_fallback_analysis
_create_fallback_analysis ==
    [category |-> Str("General"),
     priority |-> Str("Medium"),
     confidence |-> Flt(30),
     urgency_score |-> IntV(5),
     complexity_score |-> IntV(5),
     estimated_resolution_time |-> Str("Manual review required"),
     suggested_solutions |-> List(<<"Manual Review Required">>),
     knowledge_base_search |-> List(<<>>),
     escalation_triggers |-> List(<<"Manual review needed">>),
     risk_assessment |-> Str("Medium")]

NoAnalysis == [raised |-> TRUE, exc |-> "ValueError", analysis |-> <<>>]

\* The try block of _parse_ai_response (lines 118-143): the record built
\* from the parsed object, or the exception that leaves the block.
parse_try(response_text) ==
    LET text       == strip(response_text)
        json_match == re_search(text)
        loaded     == json_loads(json_match)
        analysis   == loaded.d
        confidence == PyFloat(get(analysis, "confidence", Flt(50)))
        urgency    == PyInt(get(analysis, "urgency_score", IntV(5)))
        complexity == PyInt(get(analysis, "complexity_score", IntV(5)))
    IN  IF json_match = NoMatch THEN NoAnalysis
        ELSE IF loaded.raised
        THEN [raised |-> TRUE, exc |-> "JSONDecodeError", analysis |-> <<>>]
        ELSE IF confidence.raised
        THEN [raised |-> TRUE, exc |-> confidence.exc, analysis |-> <<>>]
        ELSE IF urgency.raised
        THEN [raised |-> TRUE, exc |-> urgency.exc, analysis |-> <<>>]
        ELSE IF complexity.raised
        THEN [raised |-> TRUE, exc |-> complexity.exc, analysis |-> <<>>]
        ELSE [raised |-> FALSE, exc |-> "", analysis |->
               [category |-> get(analysis, "category", Str("General")),
                priority |-> get(analysis, "priority", Str("Medium")),
                confidence |-> confidence.v,
                urgency_score |-> urgency.v,
                complexity_score |-> complexity.v,
                estimated_resolution_time |->
                    get(analysis, "estimated_resolution_time", Str("Unknown")),
                suggested_solutions |->
                    get(analysis, "suggested_solutions", List(<<>>)),
                knowledge_base_search |->
                    get(analysis, "knowledge_base_search", List(<<>>)),
                escalation_triggers |->
                    get(analysis, "escalation_triggers", List(<<>>)),
                risk_assessment |->
                    get(analysis, "risk_assessment", Str("Medium"))]]

\* AIAnalyzer._parse_ai_response: `except Exception` turns every exception
\* of the try block into the fallback record.
_parse_ai_response(response_text) ==
    LET r == parse_try(response_text)
    IN  IF r.raised THEN _create_fallback_analysis ELSE r.analysis

-----------------------------------------------------------------------------
(* The validator on its own: every text of RawTexts is parsed once.         *)

MaxMembers == 2

\* Values a backend may give each field: well typed, ill typed, absent.
FieldValues(k) ==
    CASE k = "category"   -> {Str("Hardware"), Str("Telecom"), IntV(42)}
      [] k = "priority"   -> {Str("High"), Null}
      [] k = "confidence" -> {Flt(85), Flt(750), Str("0.9"), Str("high"), Null}
      [] k = "urgency_score"    -> {IntV(7), Flt(790), Str("7"), Str("soon")}
      [] k = "complexity_score" -> {IntV(3), Null}
      [] k = "estimated_resolution_time" -> {Str("2 hours")}
      [] k = "suggested_solutions" ->
             {List(<<"Primary Solution">>), Str("reboot")}
      [] k = "knowledge_base_search" -> {List(<<"keyword1", "keyword2">>)}
      [] k = "escalation_triggers"   -> {List(<<"trigger1">>), Null}
      [] k = "risk_assessment"       -> {Str("Low"), Str("Severe")}
      [] OTHER -> {Str("n/a")}

Members ==
    {Member(k, v) : k \in RequiredFields \cup {"notes"}, v \in
        UNION {FieldValues(f) : f \in RequiredFields \cup {"notes"}}}
    \cap UNION {{Member(k, v) : v \in FieldValues(k)} :
                    k \in RequiredFields \cup {"notes"}}

RECURSIVE SeqsUpTo(_, _)
SeqsUpTo(S, n) ==
    IF n = 0 THEN {<<>>}
    ELSE LET shorter == SeqsUpTo(S, n - 1)
         IN  shorter \cup {Append(q, x) : q \in shorter, x \in S}

\* What the model writes around the object: nothing, prose and a code fence,
\* prose that itself holds a brace.
Prefixes == {<<>>, <<WS, PROSE, WS>>, <<PROSE, LB, PROSE>>}
Suffixes == {<<>>, <<WS, PROSE, WS>>, <<PROSE, RB, WS>>}

RawTexts ==
    {pre \o <<LB>> \o body \o <<RB>> \o post :
        pre \in Prefixes, body \in SeqsUpTo(Members, MaxMembers),
        post \in Suffixes}
    \cup {<<>>, <<WS>>, <<PROSE>>, <<PROSE, RB, PROSE, LB>>, <<LB, PROSE>>,
          <<LB, PROSE, RB>>, <<LB, WS, RB>>,
          <<LB, Member("category", Str("Hardware")), PROSE, RB>>}

\* The parts of the state the validator harness does not use.
IdleAnalyzer ==
    /\ model = "None" /\ batch = <<>> /\ backend = <<>>
    /\ results = <<>> /\ calls = 0 /\ escaped = FALSE
\* last before any handler has run.  A handler fills in what it has: the
\* tables before it (before, prior), its input (incoming, ticket_id), how the
\* database behaved (db, at, saves, log_db), what it returned (ret, count),
\* whether an exception reached its except clause (raised) or left it
\* (aborted), and what it reported (messages, events); armed is
\* confirm_reset before a reset click and executed whether the click called
\* reset_processed_tickets; feedback is agent_feedback before a feedback
\* click, action and tracker its button and how the tracker answered it;
\* progress is what the progress bar was set to, as <<numerator,
\* denominator>> pairs; conn is what has become of the connection the
\* operation acquired; trace is the calls a feedback click made.
NoRun ==
    [op |-> "none", before |-> {}, prior |-> <<>>, incoming |-> <<>>,
     ticket_id |-> 0, db |-> "none", at |-> 0, saves |-> <<>>, now |-> 0,
     ret |-> FALSE, count |-> 0, raised |-> FALSE,
     log_db |-> "none", aborted |-> FALSE,
     armed |-> FALSE, executed |-> FALSE, feedback |-> <<>>,
     action |-> "none", tracker |-> "none",
     success_count |-> 0, error_count |-> 0, progress |-> <<>>,
     conn |-> "none", trace |-> <<>>, messages |-> <<>>, events |-> <<>>]
IdleSession == agent_feedback = <<>> /\ confirm_reset = FALSE

\* No tracker is configured, nothing has been fetched or classified.
NoConfig == [url |-> "", email |-> "", api_token |-> ""]
NoFetch == [success |-> FALSE, tickets |-> <<>>, count |-> 0]
IdleTracker ==
    /\ config = NoConfig /\ requests = 0 /\ fetched = NoFetch
    /\ ticket_text = <<>> /\ classified = "none"
IdleStore ==
    /\ tickets = {} /\ processed = <<>> /\ system_logs = <<>>
    /\ clock = 0 /\ runs = 0 /\ last = NoRun
IdleParser == raw = <<>> /\ parsed = _create_fallback_analysis /\ pc = "idle"
IdleBatch ==
    /\ batch = <<>> /\ backend = <<>> /\ results = <<>>
    /\ calls = 0 /\ escaped = FALSE

InitParse ==
    /\ raw \in RawTexts
    /\ parsed = _create_fallback_analysis
    /\ pc = "input"
    /\ IdleAnalyzer /\ IdleStore /\ IdleSession /\ IdleTracker

ParseResponse ==
    /\ pc = "input"
    /\ parsed' = _parse_ai_response(raw)
    /\ pc' = "parsed"
    /\ UNCHANGED <<raw, analyzerVars, storeVars, sessionVars,
                   trackerVars>>

NextParse == ParseResponse

SpecParse == InitParse /\ [][NextParse]_vars

-----------------------------------------------------------------------------
(* Properties of the validator (checked under SpecParse)                    *)

\* The text holds an object that json.loads accepts.
JsonParseable(text) ==
    /\ re_search(strip(text)) # NoMatch
    /\ ~json_loads(re_search(strip(text))).raised

ParsedObject(text) == json_loads(re_search(strip(text))).d

\* The types and enumerations the schema declares for a record.
WellTyped(a) ==
    /\ DOMAIN a = RequiredFields
    /\ a.category.t = "str" /\ a.category.s \in TICKET_CATEGORIES
    /\ a.priority.t = "str" /\ a.priority.s \in PRIORITIES
    /\ a.confidence.t = "float" /\ a.confidence.n >= 0 /\ a.confidence.n <= 100
    /\ a.urgency_score.t = "int"
    /\ a.complexity_score.t = "int"
    /\ a.risk_assessment.t = "str" /\ a.risk_assessment.s \in RISK_LEVELS
    /\ a.suggested_solutions.t = "list"
    /\ a.knowledge_base_search.t = "list"
    /\ a.escalation_triggers.t = "list"

\* C1: for every raw text the validator returns, without raising, a record
\* that has all ten fields with values of their declared types and enums.
C1_ValidatorWellTyped ==
    pc = "parsed" => WellTyped(parsed)

\* The defaulting table of the schema.
TableDefault ==
    [category |-> Str("General"), priority |-> Str("Medium"),
     confidence |-> Flt(50), urgency_score |-> IntV(5),
     complexity_score |-> IntV(5),
     estimated_resolution_time |-> Str("Unknown"),
     suggested_solutions |-> List(<<>>),
     knowledge_base_search |-> List(<<>>),
     escalation_triggers |-> List(<<>>),
     risk_assessment |-> Str("Medium")]

\* A parsed value is of the type the table expects for field f.
FieldOk(f, v) ==
    CASE f = "category"   -> v.t = "str" /\ v.s \in TICKET_CATEGORIES
      [] f = "priority"   -> v.t = "str" /\ v.s \in PRIORITIES
      [] f = "confidence" ->
             /\ v.t \in {"float", "int"}
             /\ PyFloat(v).v.n >= 0 /\ PyFloat(v).v.n <= 100
      [] f \in {"urgency_score", "complexity_score"} -> v.t = "int"
      [] f = "estimated_resolution_time" -> v.t = "str"
      [] f = "risk_assessment" -> v.t = "str" /\ v.s \in RISK_LEVELS
      [] OTHER -> v.t = "list"

\* Field by field: the parsed value if present and well typed, else the default.
FieldwiseRepair(d) ==
    [f \in RequiredFields |->
        IF f \in DOMAIN d /\ FieldOk(f, d[f])
        THEN (IF f = "confidence" THEN PyFloat(d[f]).v ELSE d[f])
        ELSE TableDefault[f]]

\* C2: from a parseable object the validator keeps every present, well-typed
\* field and substitutes the table default for each missing or ill-typed one;
\* one bad field does not discard the others.
C2_FieldwiseDefaulting ==
    (pc = "parsed" /\ JsonParseable(raw))
        => parsed = FieldwiseRepair(ParsedObject(raw))

\* C3 (as amended): with no JSON-shaped substring, or when json.loads fails,
\* the validator returns the complete fallback record: category General,
\* priority Medium, confidence 0.3, both scores 5, estimated_resolution_time
\* "Manual review required", one solution titled "Manual Review Required",
\* no knowledge-base keywords, escalation_triggers ["Manual review needed"],
\* risk_assessment Medium.
C3_FallbackRecord ==
    (pc = "parsed" /\ ~JsonParseable(raw)) =>
        /\ DOMAIN parsed = RequiredFields
        /\ parsed.category = Str("General")
        /\ parsed.priority = Str("Medium")
        /\ parsed.confidence = Flt(30)
        /\ parsed.urgency_score = IntV(5)
        /\ parsed.complexity_score = IntV(5)
        /\ parsed.estimated_resolution_time = Str("Manual review required")
        /\ parsed.suggested_solutions = List(<<"Manual Review Required">>)
        /\ parsed.knowledge_base_search = List(<<>>)
        /\ parsed.escalation_triggers = List(<<"Manual review needed">>)
        /\ parsed.risk_assessment = Str("Medium")

\* C3's case: a text whose braces enclose something json.loads rejects has
\* been parsed.
C3_Witness ==
    /\ pc = "parsed"
    /\ re_search(strip(raw)) # NoMatch
    /\ json_loads(re_search(strip(raw))).raised
    /\ parsed.confidence = Flt(30)

\* C3 as stated: every field is its table default (estimated_resolution_time
\* Unknown) except confidence, suggested_solutions and escalation_triggers.
C3_FallbackRecord_AsStated ==
    (pc = "parsed" /\ ~JsonParseable(raw)) =>
        parsed = [TableDefault EXCEPT
                    !.confidence = Flt(30),
                    !.suggested_solutions = List(<<"Manual Review Required">>),
                    !.escalation_triggers = List(<<"Manual review needed">>)]

-----------------------------------------------------------------------------
(* Tickets.  A ticket is a row of table tickets; the source tracker's id is *)
(* a number here.  A ticket comes in two versions that differ in every      *)
(* mutable field, and with either of two created stamps; tickets of         *)
(* different ids are created at different times.                            *)

MaxTickets == 3

TicketIds == 1..MaxTickets
Versions == {1, 2}
CreatedOf(id) == {2 * id, 2 * id + 1}

Ticket(id, ver, created) ==
    [id          |-> id,
     summary     |-> IF ver = 1 THEN "Laptop won't start" ELSE "VPN connection issues",
     description |-> IF ver = 1 THEN "black screen" ELSE "times out",
     category    |-> IF ver = 1 THEN "Hardware" ELSE "Network",
     priority    |-> IF ver = 1 THEN "High" ELSE "Critical",
     status      |-> IF ver = 1 THEN "Open" ELSE "In Progress",
     reporter    |-> IF ver = 1 THEN "John Smith" ELSE "David Brown",
     created     |-> created,
     updated     |-> created + ver]

-----------------------------------------------------------------------------
(* utils/ai_analyzer.py: the adapter                                        *)

\* AIAnalyzer.__init__: the model names, in the order they are probed
model_names ==
    <<"gemini-1.5-flash", "gemini-1.5-pro", "gemini-pro",
      "models/gemini-1.5-flash", "models/gemini-1.5-pro">>

\* How one generate_content call can end: it raises (transport error,
\* timeout, blocked response), or it returns a text, possibly empty.
Raises == [kind |-> "raise", text |-> <<>>]
Text(t) == [kind |-> "text", text |-> t]

\* AIAnalyzer._initialize_model: probes[i] is how the probe of model_names[i]
\* ends; the first probe that returns a non-empty text is adopted.
_initialize_model(probes) ==
    LET good == {i \in 1..Len(model_names) :
                    probes[i].kind = "text" /\ probes[i].text # <<>>}
    IN  IF good = {} THEN "None"
        ELSE model_names[CHOOSE i \in good : \A j \in good : i <= j]

\* AIAnalyzer.__init__: an exception of genai.configure leaves model = None.
AIAnalyzer_init(configure_ok, probes) ==
    IF configure_ok THEN _initialize_model(probes) ELSE "None"

\* Texts a backend returns: the object wrapped in prose, prose alone, an
\* object whose confidence is not a number.
GoodText ==
    <<PROSE, WS, LB, Member("category", Str("Hardware")),
      Member("confidence", Flt(85)), RB>>
ProseText == <<PROSE>>
BadNumberText ==
    <<LB, Member("category", Str("Hardware")),
      Member("confidence", Str("high")), RB>>

BackendOutcomes ==
    {Raises, Text(<<>>), Text(GoodText), Text(ProseText), Text(BadNumberText)}

ProbeOutcomes == {Raises, Text(<<>>), Text(<<PROSE>>)}

\* AIAnalyzer._fallback_analysis
_fallback_analysis(ticket) ==
    [success |-> TRUE, ticket_id |-> ticket.id,
     analysis |-> _create_fallback_analysis]

NoResult == [success |-> FALSE, ticket_id |-> 0,
             analysis |-> _create_fallback_analysis]

\* The try block of analyze_ticket with the model check left out.
analyze_try_NoModelCheck(self_model, ticket, o) ==
    IF o.kind = "raise"
    THEN [raised |-> TRUE, called |-> TRUE, result |-> NoResult]
    ELSE IF o.text # <<>>
    THEN [raised |-> FALSE, called |-> TRUE, result |->
            [success |-> TRUE, ticket_id |-> ticket.id,
             analysis |-> _parse_ai_response(o.text)]]
    ELSE [raised |-> FALSE, called |-> TRUE,
          result |-> _fallback_analysis(ticket)]

\* The try block of analyze_ticket (lines 44-58); o is how generate_content
\* ends if it is called.
analyze_try(self_model, ticket, o) ==
    IF self_model = "None"
    THEN [raised |-> FALSE, called |-> FALSE,
          result |-> _fallback_analysis(ticket)]
    ELSE IF o.kind = "raise"
    THEN [raised |-> TRUE, called |-> TRUE, result |-> NoResult]
    ELSE IF o.text # <<>>
    THEN [raised |-> FALSE, called |-> TRUE, result |->
            [success |-> TRUE, ticket_id |-> ticket.id,
             analysis |-> _parse_ai_response(o.text)]]
    ELSE [raised |-> FALSE, called |-> TRUE,
          result |-> _fallback_analysis(ticket)]

\* analyze_ticket without its except clause.
analyze_ticket_NoExcept(self_model, ticket, o) ==
    analyze_try(self_model, ticket, o)

\* AIAnalyzer.analyze_ticket: `except Exception` returns the fallback result.
analyze_ticket(self_model, ticket, o) ==
    LET r == analyze_try(self_model, ticket, o)
    IN  IF r.raised
        THEN [raised |-> FALSE, called |-> r.called,
              result |-> _fallback_analysis(ticket)]
        ELSE r

\* AIAnalyzer.analyze_tickets_batch: the loop from ticket i on; acc is what
\* the loop has done so far.  An exception of analyze_ticket leaves the loop.
RECURSIVE batch_loop(_, _, _, _, _)
batch_loop(self_model, ts, outs, i, acc) ==
    IF i > Len(ts) THEN acc
    ELSE LET r == analyze_ticket(self_model, ts[i], outs[i])
         IN  IF r.raised
             THEN [acc EXCEPT !.raised = TRUE,
                              !.calls = @ + (IF r.called THEN 1 ELSE 0)]
             ELSE batch_loop(self_model, ts, outs, i + 1,
                    [raised   |-> FALSE,
                     results  |-> Append(acc.results, r.result),
                     calls    |-> acc.calls + (IF r.called THEN 1 ELSE 0),
                     progress |-> Append(acc.progress, <<i, Len(ts)>>)])

\* AIAnalyzer.analyze_tickets_batch; progress holds the fractions reported,
\* <<i, n>> standing for i/n.
analyze_tickets_batch(self_model, ts, outs) ==
    batch_loop(self_model, ts, outs, 1,
               [raised |-> FALSE, results |-> <<>>, calls |-> 0,
                progress |-> <<>>])

-----------------------------------------------------------------------------
(* The adapter on its own: an adapter is initialized, and a batch of       *)
(* tickets is analyzed with the backend answering each call in some way.    *)

MaxBatch == 2

SampleTickets == {Ticket(id, 1, 2 * id) : id \in TicketIds}

\* Every value __init__ can leave in self.model.
InitialModels ==
    {AIAnalyzer_init(configure_ok, probes) :
        configure_ok \in BOOLEAN,
        probes \in [1..Len(model_names) -> ProbeOutcomes]}

InitAnalyzer ==
    /\ model \in InitialModels
    /\ batch \in SeqsUpTo(SampleTickets, MaxBatch)
    /\ backend \in [1..Len(batch) -> BackendOutcomes]
    /\ results = <<>> /\ calls = 0 /\ escaped = FALSE
    /\ raw = <<>> /\ parsed = _create_fallback_analysis /\ pc = "submitted"
    /\ IdleStore /\ IdleSession /\ IdleTracker

AnalyzeBatch ==
    /\ pc = "submitted"
    /\ \E r \in {analyze_tickets_batch(model, batch, backend)} :
          /\ results' = r.results
          /\ calls' = r.calls
          /\ escaped' = r.raised
    /\ pc' = "analyzed"
    /\ UNCHANGED <<model, batch, backend, raw, parsed, storeVars, sessionVars,
                   trackerVars>>

NextAnalyzer == AnalyzeBatch

SpecAnalyzer == InitAnalyzer /\ [][NextAnalyzer]_vars

-----------------------------------------------------------------------------
(* Properties of the adapter (checked under SpecAnalyzer)                   *)

\* The fallback record as the source writes it.
ManualReviewRecord ==
    [category |-> Str("General"), priority |-> Str("Medium"),
     confidence |-> Flt(30), urgency_score |-> IntV(5),
     complexity_score |-> IntV(5),
     estimated_resolution_time |-> Str("Manual review required"),
     suggested_solutions |-> List(<<"Manual Review Required">>),
     knowledge_base_search |-> List(<<>>),
     escalation_triggers |-> List(<<"Manual review needed">>),
     risk_assessment |-> Str("Medium")]

\* C4: with no backend (model is None) every ticket analyzed gets
\* success = true, its own id and exactly the fallback record (confidence
\* 0.3, one "Manual Review Required" solution), and the backend is not called.
C4_NoBackendFallback ==
    (pc = "analyzed" /\ model = "None") =>
        /\ calls = 0
        /\ ~escaped
        /\ Len(results) = Len(batch)
        /\ \A i \in 1..Len(batch) :
              results[i] = [success |-> TRUE, ticket_id |-> batch[i].id,
                            analysis |-> ManualReviewRecord]

\* C4's case: with no model, a batch was analyzed for which the backend, had
\* it been called, would have returned a usable object.
C4_Witness ==
    /\ pc = "analyzed" /\ model = "None"
    /\ Len(batch) = 2 /\ Len(results) = 2
    /\ backend[1] = Text(GoodText)
    /\ results[1].analysis.confidence = Flt(30)

\* The backend call for ticket i of the batch failed.
CallFailed(i) ==
    model # "None" /\ (backend[i].kind = "raise" \/ backend[i].text = <<>>)

\* C5: whatever calls fail, analyze_tickets_batch returns one result per
\* input ticket, in order; a ticket whose call failed gets success = true
\* with the fallback record, every other ticket gets its own result, and no
\* exception escapes.
C5_FailuresIsolated ==
    pc = "analyzed" =>
        /\ ~escaped
        /\ Len(results) = Len(batch)
        /\ \A i \in 1..Len(batch) :
              /\ results[i].success
              /\ results[i].ticket_id = batch[i].id
              /\ CallFailed(i) => results[i].analysis = ManualReviewRecord
              /\ (model # "None" /\ ~CallFailed(i)) =>
                    results[i].analysis = _parse_ai_response(backend[i].text)

\* C5's case: the first call of a batch raised and the second ticket still
\* got the record parsed from its own response.
C5_Witness ==
    /\ pc = "analyzed" /\ model # "None"
    /\ Len(batch) = 2 /\ Len(results) = 2
    /\ backend[1] = Raises /\ backend[2] = Text(GoodText)
    /\ results[1].analysis = ManualReviewRecord
    /\ results[2].analysis.category = Str("Hardware")
    /\ results[2].analysis.confidence = Flt(85)
    /\ calls = 2

-----------------------------------------------------------------------------
(* utils/database.py: the store.  Every operation opens its own connection; *)
(* db says how the database behaves during the operation:                   *)
(*   "ok"       every call succeeds                                         *)
(*   "connect"  get_connection raises                                       *)
(*   "execute"  execute or commit raises, rollback and close succeed        *)
(*   "broken"   the connection is lost: execute raises and so does rollback *)

DbOutcomes == {"ok", "connect", "execute", "broken"}

\* What has become of the connection of an operation when it returns:
\* "none" (get_connection raised, there never was one), "closed", or "open"
\* (still connected, with whatever the operation executed uncommitted).
\* The methods of Database close in `finally: if conn: conn.close()`.
Database_close(db) == IF db = "connect" THEN "none" ELSE "closed"

\* check_data_integrity, clean_database and reset_processed_tickets of
\* app.py call conn.close() as the last statement of the try block: an
\* exception of execute or commit jumps over it to the except block, which
\* reports the error and returns.
app_close(db) ==
    IF db = "connect" THEN "none" ELSE IF db = "ok" THEN "closed" ELSE "open"

\* get_tickets' and get_processed_tickets' default limits
TicketLimit == 100
ProcessedLimit == 50

\* INSERT INTO tickets with every statement inserting a new row.
upsert_AlwaysInsert(table, ticket) == table \cup {ticket}

\* INSERT INTO tickets ... ON CONFLICT (id) DO UPDATE SET ...: one statement
upsert(table, ticket) ==
    IF \E row \in table : row.id = ticket.id
    THEN {IF row.id = ticket.id
          THEN [row EXCEPT !.summary = ticket.summary,
                           !.description = ticket.description,
                           !.category = ticket.category,
                           !.priority = ticket.priority,
                           !.status = ticket.status,
                           !.reporter = ticket.reporter,
                           !.updated = ticket.updated]
          ELSE row : row \in table}
    ELSE table \cup {ticket}

\* The statements of save_tickets' loop, in order, on the transaction's view
\* of the table.
RECURSIVE upsert_all(_, _, _)
upsert_all(table, ts, i) ==
    IF i > Len(ts) THEN table ELSE upsert_all(upsert(table, ts[i]), ts, i + 1)

\* A connection that commits every statement as it is executed.
abort_Autocommit(table, view) == view

\* A transaction that ends without a commit, by conn.rollback() or with the
\* connection (pg8000 opens connections with autocommit off): the table is
\* what it was when the transaction began, whatever its statements did to
\* the transaction's view.
abort(table, view) == table

\* Where a save of ts can fail when the database behaves as db: at statement
\* at, because ticket at lacks a key the statement's parameters need or the
\* database rejects the statement, or, with at = Len(ts) + 1, at the commit.
FailurePoints(ts, db) ==
    IF db \in {"execute", "broken"} THEN 1..(Len(ts) + 1) ELSE {0}

\* save_tickets that empties the table before it inserts.
save_tickets_Replace(table, ts, db, at) ==
    IF ts = <<>> THEN [table |-> table, ret |-> TRUE, raised |-> FALSE]
    ELSE IF db = "connect" THEN [table |-> table, ret |-> FALSE, raised |-> FALSE]
    ELSE IF db = "ok" THEN [table |-> upsert_all({}, ts, 1), ret |-> TRUE, raised |-> FALSE]
    ELSE [table |-> table, ret |-> FALSE, raised |-> db = "broken"]

\* Database.save_tickets: the table afterwards, the value returned, whether
\* an exception leaves the method.
save_tickets(table, ts, db, at) ==
    IF ts = <<>> THEN [table |-> table, ret |-> TRUE, raised |-> FALSE]
    ELSE IF db = "connect"
    THEN [table |-> table, ret |-> FALSE, raised |-> FALSE]
    ELSE IF db = "ok"
    THEN [table |-> upsert_all(table, ts, 1), ret |-> TRUE, raised |-> FALSE]
    ELSE [table |-> abort(table, upsert_all(table, SubSeq(ts, 1, at - 1), 1)),
          ret |-> FALSE, raised |-> db = "broken"]

\* json.dumps(analysis): the stored text names the record it was made from.
json_dumps(analysis) == <<"json", analysis>>

\* f"processed_{ticket_id}_{int(datetime.now().timestamp())}"
processed_id(ticket_id, now) == <<"processed", ticket_id, now>>

\* The row save_processed_ticket inserts.
processed_row(ticket_id, analysis, now) ==
    [id |-> processed_id(ticket_id, now),
     ticket_id |-> ticket_id,
     analysis |-> json_dumps(analysis),
     confidence |-> analysis.confidence,
     status |-> "pending"]

\* Database.save_processed_ticket: an INSERT whose id is already a row's id
\* violates the primary key, which is an exception of execute.
save_processed_ticket(rows, ticket_id, analysis, now, db) ==
    IF db = "connect"
    THEN [rows |-> rows, ret |-> FALSE, raised |-> FALSE]
    ELSE IF db = "broken"
    THEN [rows |-> rows, ret |-> FALSE, raised |-> TRUE]
    ELSE IF db = "execute"
            \/ \E r \in 1..Len(rows) : rows[r].id = processed_id(ticket_id, now)
    THEN [rows |-> rows, ret |-> FALSE, raised |-> FALSE]
    ELSE [rows |-> Append(rows, processed_row(ticket_id, analysis, now)),
          ret |-> TRUE, raised |-> FALSE]

\* The orders ORDER BY created DESC can return a set of rows in: rows with
\* the same created come in any order.  When no two rows share created the
\* order is determined: i - 1 rows are newer than the row at position i.
RECURSIVE by_created_desc(_)
by_created_desc(rows) ==
    IF \A x, y \in rows : x.created = y.created => x = y
    THEN {[i \in 1..Cardinality(rows) |->
            CHOOSE x \in rows :
                Cardinality({y \in rows : y.created > x.created}) = i - 1]}
    ELSE UNION {{<<r>> \o rest : rest \in by_created_desc(rows \ {r})} :
                  r \in {x \in rows : \A y \in rows : y.created <= x.created}}

Take(q, n) == SubSeq(q, 1, IF Len(q) < n THEN Len(q) ELSE n)

\* Database.get_tickets(limit=100): the frames the SELECT can return; a
\* failure returns pd.DataFrame(), a frame with no rows and no columns.
EmptyFrame == [columns |-> FALSE, rows |-> <<>>]
get_tickets(table, limit, db) ==
    IF db = "ok"
    THEN {[columns |-> TRUE, rows |-> Take(q, limit)] :
            q \in by_created_desc(table)}
    ELSE {EmptyFrame}

Reverse(q) == [i \in 1..Len(q) |-> q[Len(q) + 1 - i]]

\* FROM processed_tickets pt JOIN tickets t ON pt.ticket_id = t.id
join_tickets(q, ids) == SelectSeq(q, LAMBDA r : r.ticket_id \in ids)

\* Database.get_processed_tickets(limit=50): processed rows JOIN tickets,
\* ORDER BY processed_date DESC LIMIT limit.
get_processed_tickets(rows, table, limit, db) ==
    IF db = "ok"
    THEN [columns |-> TRUE,
          rows |-> Take(Reverse(join_tickets(rows, {t.id : t \in table})), limit)]
    ELSE EmptyFrame

\* An event handed to log_system_event.
Event(function_name, status, msg, n) ==
    [function_name |-> function_name, status |-> status,
     details |-> [msg |-> msg, n |-> n]]

\* How the database can behave during a log write: as DbOutcomes, or
\* "close": the INSERT is committed and conn.close() raises.
AllLogOutcomes == DbOutcomes \cup {"close"}

\* log_system_event without the try blocks around rollback and close.
log_system_event_Unguarded(logs, event, db) ==
    [logs |-> IF db \in {"ok", "close"} THEN Append(logs, event) ELSE logs,
     raised |-> db \in {"broken", "close"}]

\* Database.log_system_event: the table afterwards and whether an exception
\* leaves the method.  `except Exception` swallows what connecting,
\* executing and committing raise; rollback and close have try blocks of
\* their own.
log_system_event(logs, event, db) ==
    [logs |-> IF db \in {"ok", "close"} THEN Append(logs, event) ELSE logs,
     raised |-> FALSE]

\* The log_system_event calls of a handler, in order: a call that raises
\* ends the handler.
RECURSIVE log_all(_, _, _)
RECURSIVE log_rest(_, _, _)
log_rest(l, events, db) ==
    IF l.raised THEN l ELSE log_all(l.logs, events, db)
log_all(logs, events, db) ==
    IF events = <<>> THEN [logs |-> logs, raised |-> FALSE]
    ELSE log_rest(log_system_event(logs, Head(events), db), Tail(events), db)

-----------------------------------------------------------------------------
(* app.py: the handlers of the two pipeline buttons.  A handler's value     *)
(* says what the run did: the tables afterwards, what it showed the user    *)
(* (messages), the events it handed to log_system_event, its counters.      *)

Message(kind, text, n) == [kind |-> kind, text |-> text, n |-> n]

\* What a tracker fetch returns (JiraClient.fetch_tickets): the tickets, or
\* success = False with an error text.
JiraOk(ts) == [success |-> TRUE, tickets |-> ts, count |-> Len(ts)]
JiraFailed == [success |-> FALSE, tickets |-> <<>>, count |-> 0]

\* fetch_tickets(components)
fetch_tickets(table, result, db, at) ==
    IF ~result.success
    THEN [table |-> table, ret |-> FALSE, raised |-> FALSE,
          messages |-> <<Message("error", "Failed to fetch tickets", 0)>>,
          events |-> <<Event("fetch_tickets", "ERROR", "error", 0)>>]
    ELSE LET s == save_tickets(table, result.tickets, db, at)
         IN  IF s.raised
             THEN [table |-> s.table, ret |-> FALSE, raised |-> TRUE,
                   messages |-> <<Message("error", "Failed to save tickets", 0),
                                  Message("error", "Error fetching tickets", 0)>>,
                   events |-> <<Event("fetch_tickets", "ERROR", "str(e)", 0)>>]
             ELSE IF s.ret
             THEN [table |-> s.table, ret |-> TRUE, raised |-> FALSE,
                   messages |-> <<Message("success", "Fetched and saved tickets",
                                          result.count)>>,
                   events |-> <<Event("fetch_tickets", "SUCCESS",
                                      "Fetched tickets", result.count)>>]
             ELSE [table |-> s.table, ret |-> FALSE, raised |-> FALSE,
                   messages |-> <<Message("error", "Failed to save tickets", 0),
                                  Message("error",
                                          "Failed to save tickets to database", 0)>>,
                   events |-> <<Event("fetch_tickets", "ERROR",
                                      "Failed to save tickets", 0)>>]

\* analyze_tickets, lines 243-244: the rows of all_tickets whose id is not
\* the ticket_id of a row of processed_tickets.
unprocessed_tickets(all_tickets, processed_tickets) ==
    LET processed_ids == {processed_tickets.rows[i].ticket_id :
                            i \in 1..Len(processed_tickets.rows)}
    IN  SelectSeq(all_tickets.rows, LAMBDA t : t.id \notin processed_ids)

\* analyze_tickets, lines 261-268: the loop over the results from result i
\* on; saves[i] is how the database behaves while result i is saved.  An
\* exception of save_processed_ticket leaves the loop.
RECURSIVE save_results(_, _, _, _, _)
save_results(rs, saves, now, i, acc) ==
    IF i > Len(rs) THEN acc
    ELSE IF ~rs[i].success
    THEN save_results(rs, saves, now, i + 1,
                      [acc EXCEPT !.error_count = @ + 1])
    ELSE LET s == save_processed_ticket(acc.rows, rs[i].ticket_id,
                                        rs[i].analysis, now, saves[i])
         IN  IF s.raised THEN [acc EXCEPT !.rows = s.rows, !.raised = TRUE]
             ELSE IF s.ret
             THEN save_results(rs, saves, now, i + 1,
                    [acc EXCEPT !.rows = s.rows, !.success_count = @ + 1])
             ELSE save_results(rs, saves, now, i + 1,
                    [acc EXCEPT !.rows = s.rows, !.error_count = @ + 1])

\* What analyze_tickets leaves when an exception reaches its except clause.
analyze_error(rows, ts, b, success_count, error_count) ==
    [rows |-> rows, batch |-> ts, results |-> b.results, calls |-> b.calls,
     escaped |-> b.raised, raised |-> TRUE,
     success_count |-> success_count, error_count |-> error_count,
     messages |-> <<Message("error", "Error analyzing tickets", 0)>>,
     events |-> <<Event("analyze_tickets", "ERROR", "str(e)", 0)>>]

NoBatch == [raised |-> FALSE, results |-> <<>>, calls |-> 0, progress |-> <<>>]

\* analyze_tickets, lines 270-276: the summary of a run whose loop ended
\* with the counters in s.
analyze_summary(unprocessed, b, s) ==
    [rows |-> s.rows, batch |-> unprocessed,
     results |-> b.results, calls |-> b.calls,
     escaped |-> FALSE, raised |-> FALSE,
     success_count |-> s.success_count,
     error_count |-> s.error_count,
     messages |->
        (IF s.success_count > 0
         THEN <<Message("success", "Successfully analyzed tickets",
                        s.success_count)>>
         ELSE <<>>) \o
        (IF s.error_count > 0
         THEN <<Message("warning", "Failed to analyze tickets",
                        s.error_count)>>
         ELSE <<>>),
     events |->
        (IF s.success_count > 0
         THEN <<Event("analyze_tickets", "SUCCESS",
                      "Analyzed tickets", s.success_count)>>
         ELSE <<>>) \o
        (IF s.error_count > 0
         THEN <<Event("analyze_tickets", "PARTIAL",
                      "Failed tickets", s.error_count)>>
         ELSE <<>>)]

\* analyze_tickets, lines 257-276: s is what the save loop did.
analyze_saved(unprocessed, b, s) ==
    IF s.raised
    THEN analyze_error(s.rows, unprocessed, b, s.success_count, s.error_count)
    ELSE analyze_summary(unprocessed, b, s)

\* analyze_tickets, lines 255-276: b is what analyze_tickets_batch did.
analyze_results(unprocessed, b, rows, now, saves) ==
    IF b.raised THEN analyze_error(rows, unprocessed, b, 0, 0)
    ELSE analyze_saved(unprocessed, b,
            save_results(b.results, saves, now, 1,
                         [rows |-> rows, success_count |-> 0,
                          error_count |-> 0, raised |-> FALSE]))

\* analyze_tickets, lines 246-276
analyze_unprocessed(unprocessed, self_model, rows, now, outs, saves) ==
    IF unprocessed = <<>>
    THEN [rows |-> rows, batch |-> <<>>, results |-> <<>>, calls |-> 0,
          escaped |-> FALSE, raised |-> FALSE,
          success_count |-> 0, error_count |-> 0,
          messages |-> <<Message("info", "No unprocessed tickets found", 0)>>,
          events |-> <<>>]
    ELSE analyze_results(unprocessed,
            analyze_tickets_batch(self_model, unprocessed, outs),
            rows, now, saves)

\* analyze_tickets(components), given the two frames read; outs[i] is how the
\* backend answers the call for ticket i, saves[i] how result i is saved.
\* On a frame without columns all_tickets['id'] is a KeyError.
analyze_tickets(all_tickets, processed_tickets, self_model, rows, now, outs, saves) ==
    IF ~all_tickets.columns
    THEN analyze_error(rows, <<>>, NoBatch, 0, 0)
    ELSE analyze_unprocessed(
            unprocessed_tickets(all_tickets, processed_tickets),
            self_model, rows, now, outs, saves)

-----------------------------------------------------------------------------
(* The pipeline: from an empty store, the user presses "Fetch" and          *)
(* "Analyze" in any order while time passes.                                *)

MaxRuns == 3
MaxClock == 1
MaxFetch == 2

\* Sequences of tickets of S with different ids, up to n tickets: a tracker
\* search returns an issue once.
RECURSIVE DistinctBatches(_, _)
DistinctBatches(S, n) ==
    IF n = 0 THEN {<<>>}
    ELSE LET shorter == DistinctBatches(S, n - 1)
         IN  shorter \cup
             {Append(q, x) : <<q, x>> \in
                {y \in shorter \X S :
                    \A i \in 1..Len(y[1]) : y[1][i].id # y[2].id}}

Catalog ==
    UNION {{Ticket(id, ver, c) : ver \in Versions, c \in CreatedOf(id)} :
             id \in TicketIds}

\* In a run of the pipeline every probe of __init__ ends alike, and so does
\* every backend call of one "Analyze".
PipelineModels ==
    {AIAnalyzer_init(configure_ok, [i \in 1..Len(model_names) |-> o]) :
        configure_ok \in BOOLEAN, o \in ProbeOutcomes}
PipelineBackend == {Raises, Text(GoodText)}

ReadOutcomes == {"ok", "connect"}
SaveOutcomes == {"ok", "execute", "broken"}
LogOutcomes == {"ok", "connect"}

\* The "Fetch" button with the tracker returning one of Batches or failing.
FetchTickets(Batches) ==
    /\ runs < MaxRuns
    /\ \E result \in {JiraOk(ts) : ts \in Batches} \cup {JiraFailed},
          db \in DbOutcomes, log_db \in LogOutcomes :
          \E at \in FailurePoints(result.tickets, db) :
          \E r \in {fetch_tickets(tickets, result, db, at)} :
          \E l \in {log_all(system_logs, r.events, log_db)} :
             /\ tickets' = r.table
             /\ system_logs' = l.logs
             /\ last' = [NoRun EXCEPT
                           !.op = "fetch_tickets", !.before = tickets,
                           !.prior = processed, !.incoming = result.tickets,
                           !.now = clock, !.ret = r.ret, !.raised = r.raised,
                           !.aborted = l.raised,
                           !.messages = r.messages, !.events = r.events]
    /\ runs' = runs + 1
    /\ UNCHANGED <<processed, clock, parserVars, analyzerVars, sessionVars,
                   trackerVars>>

\* The "Analyze" button, with the two reads ending in one of Reads.  The
\* backend answers every call of one run alike.
Analyze(Reads) ==
    /\ runs < MaxRuns
    /\ \E tickets_db \in Reads, processed_db \in Reads,
          o \in PipelineBackend, log_db \in LogOutcomes :
       \E all_tickets \in get_tickets(tickets, TicketLimit, tickets_db) :
       \E processed_tickets \in
            {get_processed_tickets(processed, tickets, ProcessedLimit,
                                   processed_db)} :
       \E saves \in [1..Len(unprocessed_tickets(all_tickets,
                                                processed_tickets))
                        -> SaveOutcomes] :
       \E r \in {analyze_tickets(all_tickets, processed_tickets, model,
                                 processed, clock,
                                 [i \in 1..Len(all_tickets.rows) |-> o],
                                 saves)} :
       \E l \in {log_all(system_logs, r.events, log_db)} :
          /\ processed' = r.rows
          /\ system_logs' = l.logs
          /\ batch' = r.batch
          /\ backend' = [i \in 1..Len(r.batch) |-> o]
          /\ results' = r.results
          /\ calls' = r.calls
          /\ escaped' = r.escaped
          /\ last' = [NoRun EXCEPT
                        !.op = "analyze_tickets", !.before = tickets,
                        !.prior = processed, !.saves = saves, !.now = clock,
                        !.ret = ~r.raised, !.raised = r.raised,
                        !.aborted = l.raised,
                        !.success_count = r.success_count,
                        !.error_count = r.error_count,
                        !.messages = r.messages, !.events = r.events]
    /\ runs' = runs + 1
    /\ UNCHANGED <<tickets, clock, model, parserVars, sessionVars,
                   trackerVars>>

\* A second passes.
Tick ==
    /\ clock < MaxClock
    /\ clock' = clock + 1
    /\ UNCHANGED <<tickets, processed, system_logs, runs, last, sessionVars,
                   parserVars, analyzerVars,
                   trackerVars>>

Init ==
    /\ model \in PipelineModels
    /\ IdleBatch /\ IdleParser /\ IdleStore /\ IdleSession /\ IdleTracker

FetchSample == FetchTickets(DistinctBatches(SampleTickets, MaxFetch))
AnalyzeTickets == Analyze(ReadOutcomes)

Next == FetchSample \/ AnalyzeTickets \/ Tick

Spec == Init /\ [][Next]_vars

-----------------------------------------------------------------------------
(* A store that has been in use: about ProcessedLimit tickets are stored,   *)
(* and all but the newest few have been analyzed, oldest first, before the  *)
(* clock's second 0 ended.  The buttons have been pressed before: the model *)
(* follows the store for one more press of "Analyze", in which every read   *)
(* of the database succeeds.                                                *)

MaxOver == 2

StoredTickets(n) == {Ticket(id, 1, 2 * id) : id \in 1..n}
ProcessedRows(n) ==
    [i \in 1..n |-> processed_row(i, _create_fallback_analysis, 0)]

InitLimit ==
    /\ model \in PipelineModels
    /\ IdleBatch /\ IdleParser
    /\ \E n \in (ProcessedLimit - 1)..(ProcessedLimit + MaxOver),
          fresh \in 0..MaxOver :
          /\ tickets = StoredTickets(n)
          /\ processed = ProcessedRows(n - fresh)
    /\ system_logs = <<>> /\ clock = 0 /\ runs = MaxRuns - 1 /\ last = NoRun
    /\ IdleSession /\ IdleTracker

AnalyzeReadable == Analyze({"ok"})

NextLimit == AnalyzeReadable \/ Tick

SpecLimit == InitLimit /\ [][NextLimit]_vars

-----------------------------------------------------------------------------
(* Properties of an analyze run                                             *)

AnalyzeRan == last.op = "analyze_tickets"

\* The ids of the tickets stored when the run began, and of the tickets
\* that had a processed row then.
StoredIds == {t.id : t \in last.before}
ProcessedIds == {last.prior[i].ticket_id : i \in 1..Len(last.prior)}
AnalyzedIds == {batch[i].id : i \in 1..Len(batch)}

\* The processed rows the run inserted.
Inserted == SubSeq(processed, Len(last.prior) + 1, Len(processed))

\* C6: an analyze run analyzes exactly the stored tickets whose id is not the
\* ticket_id of any processed row: none that has a processed row is analyzed
\* again, none without one is left out, however many tickets and rows are
\* stored.
C6_ExactlyUnprocessed ==
    AnalyzeRan => AnalyzedIds = StoredIds \ ProcessedIds

\* C7: if every stored ticket has a processed row, an analyze run makes no
\* backend call, inserts no processed row and reports
\* "No unprocessed tickets found".
C7_AllProcessedNoOp ==
    (AnalyzeRan /\ StoredIds \subseteq ProcessedIds) =>
        /\ calls = 0
        /\ processed = last.prior
        /\ last.messages = <<Message("info", "No unprocessed tickets found", 0)>>

\* C8: an analyze run over a non-empty unprocessed set hands exactly one
\* event to the log: SUCCESS iff every save succeeded, PARTIAL iff some but
\* not all did, ERROR iff none did or an exception reached the top level.
C8_OneEventPerRun ==
    (AnalyzeRan /\ batch # <<>>) =>
        /\ Len(last.events) = 1
        /\ LET status == last.events[1].status
               saved == Len(Inserted)
           IN  /\ status = "SUCCESS" <=> (~last.raised /\ saved = Len(batch))
               /\ status = "PARTIAL" <=>
                     (~last.raised /\ 0 < saved /\ saved < Len(batch))
               /\ status = "ERROR" <=> (last.raised \/ saved = 0)

\* C9: at the end of an analyze run success_count + error_count is the
\* number of unprocessed tickets, success_count is the number of rows
\* inserted, every adapter result has success = true, the rows saved before
\* a failed save stay, and every ticket after a failed save is still saved
\* if the database takes its row.
C9_CountsAndIsolation ==
    AnalyzeRan =>
        /\ last.success_count + last.error_count = Len(batch)
        /\ last.success_count = Len(Inserted)
        /\ \A i \in 1..Len(results) : results[i].success
        /\ SubSeq(processed, 1, Len(last.prior)) = last.prior
        /\ \A i \in 1..Len(batch) :
              (/\ last.saves[i] = "ok"
               /\ \A j \in 1..Len(last.prior) :
                     last.prior[j].id # processed_id(batch[i].id, last.now))
              => \E j \in 1..Len(Inserted) :
                     Inserted[j].ticket_id = batch[i].id

\* C9 where no connection is lost during a save.
C9_UnlessConnectionLost ==
    (\A i \in 1..Len(last.saves) : last.saves[i] # "broken")
        => C9_CountsAndIsolation

-----------------------------------------------------------------------------
(* Ingestion on its own: from an empty store, "Fetch" is pressed with the   *)
(* tracker returning any tickets of the catalog: new ones, changed ones,    *)
(* the same ones again.                                                     *)

MaxIngests == 2

FetchAny ==
    /\ runs < MaxIngests
    /\ FetchTickets(DistinctBatches(Catalog, MaxFetch))

NextIngest == FetchAny

SpecIngest == Init /\ [][NextIngest]_vars

Saved == last.op = "fetch_tickets" /\ last.ret /\ ~last.raised

\* C10: after save_tickets has succeeded on a batch, each id of the batch has
\* exactly one row; an id that was absent has a row equal to the incoming
\* ticket; an id that was present keeps id and created and has summary,
\* description, category, priority, status, reporter and updated of the
\* incoming ticket.  Saving tickets that are stored as they come leaves the
\* table as it was.
C10_Upsert ==
    Saved =>
        /\ \A i \in 1..Len(last.incoming) :
              LET t == last.incoming[i]
                  rows == {r \in tickets : r.id = t.id}
                  old == {r \in last.before : r.id = t.id}
              IN  /\ Cardinality(rows) = 1
                  /\ old = {} => rows = {t}
                  /\ \A o \in old : \A r \in rows :
                        /\ r.id = o.id
                        /\ r.created = o.created
                        /\ r.summary = t.summary
                        /\ r.description = t.description
                        /\ r.category = t.category
                        /\ r.priority = t.priority
                        /\ r.status = t.status
                        /\ r.reporter = t.reporter
                        /\ r.updated = t.updated
        /\ (\A i \in 1..Len(last.incoming) : last.incoming[i] \in last.before)
              => tickets = last.before

\* C10's case: a batch was saved that changes a stored ticket (other fields,
\* another created) and brings a new one.
C10_Witness ==
    /\ Saved
    /\ last.before = {Ticket(1, 1, 2)}
    /\ last.incoming = <<Ticket(1, 2, 3), Ticket(2, 1, 4)>>
    /\ tickets = {[Ticket(1, 2, 3) EXCEPT !.created = 2], Ticket(2, 1, 4)}

-----------------------------------------------------------------------------
(* save_tickets on its own: a table that earlier fetches have filled, and   *)
(* one call of save_tickets with any batch of the catalog, failing at any   *)
(* of its statements or not at all.                                         *)

InitSave ==
    /\ model = "None"
    /\ IdleBatch /\ IdleParser /\ IdleSession /\ IdleTracker
    /\ tickets \in SUBSET SampleTickets
    /\ processed = <<>> /\ system_logs = <<>>
    /\ clock = 0 /\ runs = 0 /\ last = NoRun

SaveTickets ==
    /\ runs = 0
    /\ \E ts \in DistinctBatches(Catalog, MaxFetch), db \in DbOutcomes :
       \E at \in FailurePoints(ts, db) :
       \E r \in {save_tickets(tickets, ts, db, at)} :
          /\ tickets' = r.table
          /\ last' = [NoRun EXCEPT
                        !.op = "save_tickets", !.before = tickets,
                        !.incoming = ts, !.db = db, !.at = at,
                        !.ret = r.ret, !.raised = r.raised]
    /\ runs' = 1
    /\ UNCHANGED <<processed, system_logs, clock, parserVars, analyzerVars,
                   sessionVars,
                   trackerVars>>

NextSave == SaveTickets

SpecSave == InitSave /\ [][NextSave]_vars

\* save_tickets was called and the database failed during the call.
SaveFailed ==
    /\ last.op = "save_tickets" /\ last.incoming # <<>>
    /\ last.db # "ok"

\* C11: if save_tickets fails on any ticket of a batch it returns False and
\* the tickets table is exactly as it was before the call: no ticket of the
\* batch, those before the failing one included, is inserted or updated.
C11_AllOrNothing ==
    SaveFailed =>
        /\ ~last.raised /\ ~last.ret
        /\ tickets = last.before

\* The table's part of C11: a failed save leaves the table as it was,
\* whether save_tickets returns or raises.
C11_TableUntouched == SaveFailed => tickets = last.before

-----------------------------------------------------------------------------
(* Maintenance of table processed_tickets (app.py, utils/database.py)       *)

\* The clock's second 0 as seconds since 1970: timestamps have ten digits.
Epoch == 1700000000

\* str(n): the decimal digits of n
RECURSIVE Digits(_)
Digits(n) == IF n < 10 THEN <<n>> ELSE Append(Digits(n \div 10), n % 10)

\* a < b for texts, character by character
RECURSIVE text_less(_, _)
text_less(a, b) ==
    IF b = <<>> THEN FALSE
    ELSE IF a = <<>> THEN TRUE
    ELSE IF Head(a) = Head(b) THEN text_less(Tail(a), Tail(b))
    ELSE Head(a) < Head(b)

\* The part of the text "processed_{ticket_id}_{timestamp}" in which the ids
\* of one ticket's rows differ: the digits of the timestamp.
stamp_text(id) == Digits(Epoch + id[3])

\* SELECT MIN(id) ... GROUP BY ticket_id
oldest_ids(rows) ==
    {rows[i].id : i \in
        {i \in 1..Len(rows) : \A j \in 1..Len(rows) :
            rows[j].ticket_id = rows[i].ticket_id =>
                ~text_less(stamp_text(rows[j].id), stamp_text(rows[i].id))}}

\* SELECT MAX(id) FROM processed_tickets GROUP BY ticket_id: the ids are
\* texts, and of the ids of one ticket the greatest text is taken.
latest_ids(rows) ==
    {rows[i].id : i \in
        {i \in 1..Len(rows) : \A j \in 1..Len(rows) :
            rows[j].ticket_id = rows[i].ticket_id =>
                ~text_less(stamp_text(rows[i].id), stamp_text(rows[j].id))}}

\* clean_database(db): the rows afterwards and the count returned.  Any
\* exception (connecting, executing, committing) ends in `return 0` with
\* nothing committed.
clean_database(rows, db) ==
    IF db = "ok"
    THEN [rows |-> SelectSeq(rows, LAMBDA r : r.id \in latest_ids(rows)),
          count |-> Cardinality({i \in 1..Len(rows) :
                                    rows[i].id \notin latest_ids(rows)})]
    ELSE [rows |-> rows, count |-> 0]

\* Database.cleanup_orphaned_processed_tickets: DELETE ... WHERE ticket_id
\* NOT IN (SELECT id FROM tickets), cursor.rowcount returned; an exception
\* is answered by rollback and `return 0`, and leaves the method if the
\* rollback raises.
cleanup_orphaned_processed_tickets(rows, table, db) ==
    IF db = "ok"
    THEN [rows |-> SelectSeq(rows, LAMBDA r :
                        r.ticket_id \in {t.id : t \in table}),
          count |-> Cardinality({i \in 1..Len(rows) :
                        rows[i].ticket_id \notin {t.id : t \in table}}),
          raised |-> FALSE]
    ELSE [rows |-> rows, count |-> 0, raised |-> db = "broken"]

\* reset_processed_tickets(db): DELETE FROM processed_tickets
reset_processed_tickets(rows, db) ==
    IF db = "ok" THEN [rows |-> <<>>, ret |-> TRUE]
    ELSE [rows |-> rows, ret |-> FALSE]

\* main, lines 167-175: the "Clean Database" button
clean_button(rows, db) ==
    LET r == clean_database(rows, db)
    IN  [rows |-> r.rows, count |-> r.count,
         messages |->
            (IF db = "ok" THEN <<>>
             ELSE <<Message("error", "Failed to clean database", 0)>>) \o
            (IF r.count > 0
             THEN <<Message("success", "Cleaned up duplicate processed tickets",
                            r.count)>>
             ELSE <<Message("info", "No duplicates to clean", 0)>>),
         events |->
            IF r.count > 0
            THEN <<Event("clean_database", "SUCCESS", "Removed duplicates",
                         r.count)>>
            ELSE <<>>]

-----------------------------------------------------------------------------
(* Table processed_tickets on its own: a store in which some tickets have   *)
(* been analyzed, some more than once, and some tickets have been deleted   *)
(* by an operator since; one maintenance operation is applied to it.        *)

MaxRows == 3

\* The tables save_processed_ticket can have built by the second MaxClock,
\* up to n rows: no two rows share an id, stamps do not decrease.
RECURSIVE Histories(_)
Histories(n) ==
    IF n = 0 THEN {<<>>}
    ELSE LET shorter == Histories(n - 1)
         IN  shorter \cup
             {Append(h[1], processed_row(h[2], _create_fallback_analysis, h[3])) :
                h \in {x \in shorter \X TicketIds \X (0..MaxClock) :
                        \A i \in 1..Len(x[1]) :
                            /\ x[1][i].id # processed_id(x[2], x[3])
                            /\ x[1][i].id[3] <= x[3]}}

InitMaintain ==
    /\ model = "None"
    /\ IdleBatch /\ IdleParser /\ IdleSession /\ IdleTracker
    /\ tickets \in {StoredTickets(n) : n \in 0..MaxTickets}
    /\ processed \in Histories(MaxRows)
    /\ clock \in 0..MaxClock
    /\ \A i \in 1..Len(processed) : processed[i].id[3] <= clock
    /\ system_logs = <<>> /\ runs = 0 /\ last = NoRun

\* One call of save_processed_ticket.
SaveProcessed ==
    /\ runs = 0
    /\ \E ticket_id \in TicketIds, db \in DbOutcomes :
       \E r \in {save_processed_ticket(processed, ticket_id,
                                       _create_fallback_analysis, clock, db)} :
          /\ processed' = r.rows
          /\ last' = [NoRun EXCEPT
                        !.op = "save_processed_ticket", !.before = tickets,
                        !.prior = processed, !.ticket_id = ticket_id,
                        !.db = db, !.now = clock,
                        !.ret = r.ret, !.raised = r.raised,
                        !.conn = Database_close(db)]
    /\ runs' = 1
    /\ UNCHANGED <<tickets, system_logs, clock, parserVars, analyzerVars,
                   sessionVars,
                   trackerVars>>

\* The "Clean Database" button.
CleanDatabase ==
    /\ runs = 0
    /\ \E db \in DbOutcomes, log_db \in AllLogOutcomes :
       \E r \in {clean_button(processed, db)} :
       \E l \in {log_all(system_logs, r.events, log_db)} :
          /\ processed' = r.rows
          /\ system_logs' = l.logs
          /\ last' = [NoRun EXCEPT
                        !.op = "clean_database", !.before = tickets,
                        !.prior = processed, !.db = db, !.now = clock,
                        !.ret = db = "ok", !.count = r.count,
                        !.log_db = log_db, !.aborted = l.raised,
                        !.conn = app_close(db),
                        !.messages = r.messages, !.events = r.events]
    /\ runs' = 1
    /\ UNCHANGED <<tickets, clock, parserVars, analyzerVars, sessionVars,
                   trackerVars>>

\* One call of cleanup_orphaned_processed_tickets.
CleanupOrphans ==
    /\ runs = 0
    /\ \E db \in DbOutcomes :
       \E r \in {cleanup_orphaned_processed_tickets(processed, tickets, db)} :
          /\ processed' = r.rows
          /\ last' = [NoRun EXCEPT
                        !.op = "cleanup_orphaned_processed_tickets",
                        !.before = tickets, !.prior = processed,
                        !.db = db, !.now = clock, !.ret = db = "ok",
                        !.count = r.count, !.raised = r.raised,
                        !.conn = Database_close(db)]
    /\ runs' = 1
    /\ UNCHANGED <<tickets, system_logs, clock, parserVars, analyzerVars,
                   sessionVars,
                   trackerVars>>

NextMaintain == SaveProcessed \/ CleanDatabase \/ CleanupOrphans

SpecMaintain == InitMaintain /\ [][NextMaintain]_vars

-----------------------------------------------------------------------------
(* Properties of the maintenance operations (checked under SpecMaintain)    *)

\* save_processed_ticket was called while the database worked.
SavedProcessed == last.op = "save_processed_ticket" /\ last.db = "ok"

\* C12: save_processed_ticket succeeds and adds exactly one new row whose id
\* differs from every existing row's id, and leaves the existing rows as
\* they were, also when the ticket already has rows and however little time
\* has passed since the last insert for the ticket.
C12_FreshRowEveryTime ==
    SavedProcessed =>
        /\ last.ret /\ ~last.raised
        /\ Len(processed) = Len(last.prior) + 1
        /\ SubSeq(processed, 1, Len(last.prior)) = last.prior
        /\ \A i \in 1..Len(last.prior) :
              last.prior[i].id # processed[Len(processed)].id

\* C12 for a ticket that has no row stamped with the current second.
C12_UnlessSameSecond ==
    (/\ SavedProcessed
     /\ \A i \in 1..Len(last.prior) :
           last.prior[i].id # processed_id(last.ticket_id, last.now))
    => C12_FreshRowEveryTime

CleanRan == last.op = "clean_database"

\* The positions in rows of the rows of ticket id.
RowsOf(rows, id) == {i \in 1..Len(rows) : rows[i].ticket_id = id}
TicketIdsOf(rows) == {rows[i].ticket_id : i \in 1..Len(rows)}

\* C13: after clean_database every ticket_id that was present is still
\* present, the count returned is the number of rows removed, and, the
\* database having worked, every ticket_id has exactly one row: the most
\* recent of its former rows, which is the one with the greatest id.
C13_DedupKeepsLatest ==
    CleanRan =>
        /\ TicketIdsOf(processed) = TicketIdsOf(last.prior)
        /\ last.count = Len(last.prior) - Len(processed)
        /\ last.db = "ok" =>
              \A id \in TicketIdsOf(last.prior) :
                 /\ Cardinality(RowsOf(processed, id)) = 1
                 /\ \A i \in RowsOf(processed, id) :
                       \E k \in RowsOf(last.prior, id) :
                          /\ processed[i] = last.prior[k]
                          /\ \A j \in RowsOf(last.prior, id) :
                                /\ j <= k
                                /\ last.prior[j].id[3] <= last.prior[k].id[3]

\* C13's case: ticket 1 was analyzed in second 0 and again in second 1,
\* ticket 2 once; the clean removed ticket 1's first row and returned 1.
C13_Witness ==
    /\ CleanRan /\ last.db = "ok"
    /\ last.prior = <<processed_row(1, _create_fallback_analysis, 0),
                      processed_row(2, _create_fallback_analysis, 0),
                      processed_row(1, _create_fallback_analysis, 1)>>
    /\ processed = <<processed_row(2, _create_fallback_analysis, 0),
                     processed_row(1, _create_fallback_analysis, 1)>>
    /\ last.count = 1

OrphansCleaned == last.op = "cleanup_orphaned_processed_tickets"

\* The positions in rows of the rows whose ticket is not stored.
Orphans(rows, table) ==
    {i \in 1..Len(rows) : \A t \in table : t.id # rows[i].ticket_id}

\* C14: cleanup_orphaned_processed_tickets deletes exactly the processed
\* rows whose ticket_id matches no row of tickets, leaves the other rows and
\* the tickets as they were and returns the number of rows deleted; on a
\* database error it deletes nothing and returns 0.
C14_OrphansOnly ==
    OrphansCleaned =>
        /\ ~last.raised
        /\ tickets = last.before
        /\ last.db = "ok" =>
              /\ processed = SelectSeq(last.prior, LAMBDA r :
                                \E t \in last.before : t.id = r.ticket_id)
              /\ last.count = Cardinality(Orphans(last.prior, last.before))
        /\ last.db # "ok" => processed = last.prior /\ last.count = 0

\* C14 but for the value returned when the rollback raises.
C14_UnlessRollbackRaises ==
    (OrphansCleaned /\ last.db # "broken") => C14_OrphansOnly

-----------------------------------------------------------------------------
(* app.py: the "Reset All Processed Tickets" button and the feedback        *)
(* buttons                                                                  *)

\* main, lines 179-184: the reset has succeeded; l is what the log write did.
\* The flag is cleared after the log write.
reset_logged(l) ==
    [rows |-> <<>>, flag |-> l.raised, logs |-> l.logs,
     executed |-> TRUE, ret |-> TRUE, aborted |-> l.raised,
     messages |-> <<Message("success", "All processed ticket records cleared", 0)>>,
     events |-> <<Event("reset_processed", "SUCCESS",
                        "All processed tickets cleared", 0)>>]

\* main, lines 178-184: the click that finds the flag armed; r is what
\* reset_processed_tickets did.  A failed reset leaves the flag armed.
reset_confirmed(r, logs, log_db) ==
    IF r.ret
    THEN reset_logged(log_system_event(logs,
            Event("reset_processed", "SUCCESS",
                  "All processed tickets cleared", 0), log_db))
    ELSE [rows |-> r.rows, flag |-> TRUE, logs |-> logs,
          executed |-> TRUE, ret |-> FALSE, aborted |-> FALSE,
          messages |-> <<Message("error", "Failed to reset processed tickets", 0)>>,
          events |-> <<>>]

\* The reset button without the confirmation.
reset_button_NoConfirm(rows, flag, logs, db, log_db) ==
    reset_confirmed(reset_processed_tickets(rows, db), logs, log_db)

\* main, lines 177-187: the "Reset All Processed Tickets" button
reset_button(rows, flag, logs, db, log_db) ==
    IF flag
    THEN reset_confirmed(reset_processed_tickets(rows, db), logs, log_db)
    ELSE [rows |-> rows, flag |-> TRUE, logs |-> logs,
          executed |-> FALSE, ret |-> FALSE, aborted |-> FALSE,
          messages |-> <<Message("warning",
                "This will delete ALL processed ticket data. Click again to confirm.", 0)>>,
          events |-> <<>>]

\* The feedback buttons: rating, action and comments of each (lines 476-490)
FeedbackButtons ==
    {[rating |-> 5, action |-> "Applied", comments |-> "Applied AI suggestion"],
     [rating |-> 3, action |-> "Modified", comments |-> "Modified AI suggestion"],
     [rating |-> 1, action |-> "Rejected", comments |-> "Rejected AI suggestion"],
     [rating |-> 2, action |-> "Escalated",
      comments |-> "Escalated for manual review"]}

\* Database.save_feedback: the table afterwards, the value returned, whether
\* an exception leaves the method (the rollback is not guarded).
Database_save_feedback(rows, ticket_id, agent_id, button, now, db) ==
    IF db = "ok"
    THEN [rows |-> Append(rows,
                     [ticket_id |-> ticket_id, agent_id |-> agent_id,
                      rating |-> button.rating, action |-> button.action,
                      comments |-> button.comments, timestamp |-> now]),
          ret |-> TRUE, raised |-> FALSE]
    ELSE [rows |-> rows, ret |-> FALSE, raised |-> db = "broken"]

\* How the tracker answers update_ticket_status: "demo" no tracker is
\* configured, "done" the transition is executed (204), "rejected" there is
\* no such transition or a request is answered with another status,
\* "exception" a request raises.
TrackerOutcomes == {"demo", "done", "rejected", "exception"}

\* update_ticket_status without its try block.
update_ticket_status_NoExcept(tracker) ==
    [ret |-> tracker \in {"demo", "done"}, raised |-> tracker = "exception"]

\* JiraClient.update_ticket_status(ticket_id, "Done")
update_ticket_status(tracker) ==
    [ret |-> tracker \in {"demo", "done"}, raised |-> FALSE]

\* save_feedback, lines 518-520 and every log write of the handler: the
\* events are logged in turn; a log write that raised inside the try block
\* would be reported by the except clause.  trace lists the calls the
\* handler made to the store's save_feedback and to the tracker, in order.
feedback_report(rows, logs, messages, events, raised, trace, log_db) ==
    LET l == log_all(logs, events, log_db)
    IN  [rows |-> rows, logs |-> l.logs, events |-> events,
         messages |-> IF l.raised
                      THEN Append(messages, Message("error", "Error saving feedback", 0))
                      ELSE messages,
         raised |-> raised, trace |-> trace, aborted |-> l.raised]

\* save_feedback, lines 502-514: the feedback is saved and the action is
\* "Applied"; u is what update_ticket_status did.
feedback_applied(rows, logs, ticket_id, u, log_db) ==
    IF u.raised
    THEN feedback_report(rows, logs,
            <<Message("error", "Error saving feedback", ticket_id)>>,
            <<Event("save_feedback", "ERROR", "str(e)", ticket_id)>>,
            TRUE, <<"db.save_feedback", "jira.update_ticket_status">>, log_db)
    ELSE IF u.ret
    THEN feedback_report(rows, logs,
            <<Message("success", "Feedback saved and JIRA ticket marked as Done", ticket_id)>>,
            <<Event("update_jira", "SUCCESS", "Updated to Done", ticket_id),
              Event("save_feedback", "SUCCESS", "Saved feedback", ticket_id)>>,
            FALSE, <<"db.save_feedback", "jira.update_ticket_status">>, log_db)
    ELSE feedback_report(rows, logs,
            <<Message("warning", "Feedback saved but failed to update JIRA ticket", ticket_id)>>,
            <<Event("update_jira", "ERROR", "Failed to update", ticket_id),
              Event("save_feedback", "SUCCESS", "Saved feedback", ticket_id)>>,
            FALSE, <<"db.save_feedback", "jira.update_ticket_status">>, log_db)

\* save_feedback with the tracker updated after every saved feedback,
\* whatever the action.
feedback_saved_AnyAction(s, logs, ticket_id, button, tracker, log_db) ==
    IF s.raised
    THEN feedback_report(s.rows, logs,
            <<Message("error", "Failed to save feedback", 0),
              Message("error", "Error saving feedback", ticket_id)>>,
            <<Event("save_feedback", "ERROR", "str(e)", ticket_id)>>,
            TRUE, <<"db.save_feedback">>, log_db)
    ELSE IF ~s.ret
    THEN feedback_report(s.rows, logs,
            <<Message("error", "Failed to save feedback", 0),
              Message("error", "Failed to save feedback", ticket_id)>>,
            <<Event("save_feedback", "ERROR", "Failed to save feedback", ticket_id)>>,
            FALSE, <<"db.save_feedback">>, log_db)
    ELSE feedback_applied(s.rows, logs, ticket_id,
                          update_ticket_status(tracker), log_db)

\* save_feedback, lines 499-517: s is what Database.save_feedback did.
feedback_saved(s, logs, ticket_id, button, tracker, log_db) ==
    IF s.raised
    THEN feedback_report(s.rows, logs,
            <<Message("error", "Failed to save feedback", 0),
              Message("error", "Error saving feedback", ticket_id)>>,
            <<Event("save_feedback", "ERROR", "str(e)", ticket_id)>>,
            TRUE, <<"db.save_feedback">>, log_db)
    ELSE IF ~s.ret
    THEN feedback_report(s.rows, logs,
            <<Message("error", "Failed to save feedback", 0),
              Message("error", "Failed to save feedback", ticket_id)>>,
            <<Event("save_feedback", "ERROR", "Failed to save feedback", ticket_id)>>,
            FALSE, <<"db.save_feedback">>, log_db)
    ELSE IF button.action = "Applied"
    THEN feedback_applied(s.rows, logs, ticket_id,
                          update_ticket_status(tracker), log_db)
    ELSE feedback_report(s.rows, logs,
            <<Message("success", "Feedback saved", ticket_id)>>,
            <<Event("save_feedback", "SUCCESS", "Saved feedback", ticket_id)>>,
            FALSE, <<"db.save_feedback">>, log_db)

\* app.save_feedback(components, ticket_id, rating, action, comments)
save_feedback(rows, logs, ticket_id, button, now, db, tracker, log_db) ==
    feedback_saved(Database_save_feedback(rows, ticket_id, "current_agent",
                                          button, now, db),
                   logs, ticket_id, button, tracker, log_db)

\* show_ai_analysis, lines 442-448: the tickets whose analysis is on the page
\* (processed rows joined with their ticket).
Displayed(rows, table) ==
    {rows[i].ticket_id : i \in (1..Len(rows)) \ Orphans(rows, table)}

-----------------------------------------------------------------------------
(* The session: clicks on the reset button and on the feedback buttons      *)

\* The number of clicks of a session
MaxClicks == 2

\* The number of processed rows a session starts with
MaxShown == 2

InitSession ==
    /\ model = "None"
    /\ IdleBatch /\ IdleParser /\ IdleSession /\ IdleTracker
    /\ tickets = StoredTickets(1)
    /\ processed \in Histories(MaxShown)
    /\ clock \in 0..MaxClock
    /\ \A i \in 1..Len(processed) : processed[i].id[3] <= clock
    /\ system_logs = <<>> /\ runs = 0 /\ last = NoRun

\* A click on "Reset All Processed Tickets".
ResetClick ==
    /\ runs < MaxClicks
    /\ \E db \in DbOutcomes, log_db \in AllLogOutcomes :
       \E r \in {reset_button(processed, confirm_reset, system_logs, db, log_db)} :
          /\ processed' = r.rows
          /\ confirm_reset' = r.flag
          /\ system_logs' = r.logs
          /\ last' = [NoRun EXCEPT
                        !.op = "reset_processed", !.before = tickets,
                        !.prior = processed, !.armed = confirm_reset,
                        !.db = db, !.log_db = log_db, !.now = clock,
                        !.ret = r.ret, !.executed = r.executed,
                        !.aborted = r.aborted,
                        !.conn = IF r.executed THEN app_close(db) ELSE "none",
                        !.messages = r.messages, !.events = r.events]
    /\ runs' = runs + 1
    /\ UNCHANGED <<tickets, clock, agent_feedback, parserVars, analyzerVars,
                   trackerVars>>

\* A click on one of the feedback buttons of a displayed ticket.
FeedbackClick ==
    /\ runs < MaxClicks
    /\ \E ticket_id \in Displayed(processed, tickets), button \in FeedbackButtons,
          db \in DbOutcomes, tracker \in TrackerOutcomes, log_db \in LogOutcomes :
       \E r \in {save_feedback(agent_feedback, system_logs, ticket_id, button,
                               clock, db, tracker, log_db)} :
          /\ agent_feedback' = r.rows
          /\ system_logs' = r.logs
          /\ last' = [NoRun EXCEPT
                        !.op = "save_feedback", !.before = tickets,
                        !.prior = processed, !.feedback = agent_feedback,
                        !.ticket_id = ticket_id,
                        !.action = button.action, !.tracker = tracker,
                        !.db = db, !.log_db = log_db, !.now = clock,
                        !.ret = db = "ok", !.raised = r.raised,
                        !.aborted = r.aborted,
                        !.conn = Database_close(db), !.trace = r.trace,
                        !.messages = r.messages, !.events = r.events]
    /\ runs' = runs + 1
    /\ UNCHANGED <<tickets, processed, clock, confirm_reset, parserVars,
                   analyzerVars,
                   trackerVars>>

NextSession == ResetClick \/ FeedbackClick \/ CleanDatabase

SpecSession == InitSession /\ [][NextSession]_vars

-----------------------------------------------------------------------------
(* Logging is best effort                                                   *)

\* The feedback button of an action
ButtonOf(action) == CHOOSE b \in FeedbackButtons : b.action = action

\* The reset click recorded in last left what it leaves when its log write
\* succeeds.
ResetAsLogged ==
    \E r \in {reset_button(last.prior, last.armed, <<>>, last.db, "ok")} :
       /\ processed = r.rows /\ confirm_reset = r.flag
       /\ last.ret = r.ret /\ last.executed = r.executed
       /\ last.messages = r.messages

\* The feedback click recorded in last left what it leaves when its log
\* writes succeed.
FeedbackAsLogged ==
    \E r \in {save_feedback(last.feedback, <<>>, last.ticket_id,
                            ButtonOf(last.action), last.now, last.db,
                            last.tracker, "ok")} :
       /\ agent_feedback = r.rows
       /\ last.raised = r.raised
       /\ last.messages = r.messages

-----------------------------------------------------------------------------
(* The reset needs two clicks                                               *)

ResetClicked == last.op = "reset_processed"

\* C16: a click on the reset button while confirm_reset is clear deletes no
\* processed row: it only arms the flag and shows the warning;
\* reset_processed_tickets is called only by a click that finds the flag
\* armed, which takes an earlier click.
C16_ResetNeedsConfirmation ==
    /\ confirm_reset => runs >= 1
    /\ ResetClicked =>
          /\ last.executed => last.armed /\ runs >= 2
          /\ ~last.armed =>
                /\ ~last.executed
                /\ processed = last.prior
                /\ confirm_reset
                /\ last.messages = <<Message("warning",
                      "This will delete ALL processed ticket data. Click again to confirm.", 0)>>
                /\ last.events = <<>>

\* The second click, on the armed flag, has deleted the rows.
C16_Witness ==
    /\ ResetClicked /\ last.armed /\ last.executed /\ last.ret
    /\ last.prior # <<>> /\ processed = <<>>
    /\ runs = 2

-----------------------------------------------------------------------------
(* Feedback that is saved but not applied in the tracker                    *)

\* The click on Apply whose feedback was saved and whose tracker update
\* returned False
AppliedButNotUpdated ==
    /\ last.op = "save_feedback" /\ last.action = "Applied"
    /\ last.db = "ok"
    /\ last.tracker \in {"rejected", "exception"}

\* C17: when the feedback of an Apply click is saved and
\* update_ticket_status then returns False, the feedback row stays in
\* agent_feedback, the user is shown the partial-success warning and no
\* error, and no exception leaves save_feedback.
C17_SavedButNotUpdated ==
    AppliedButNotUpdated =>
       /\ agent_feedback =
             Append(last.feedback,
                    [ticket_id |-> last.ticket_id, agent_id |-> "current_agent",
                     rating |-> 5, action |-> "Applied",
                     comments |-> "Applied AI suggestion",
                     timestamp |-> last.now])
       /\ last.messages =
             <<Message("warning", "Feedback saved but failed to update JIRA ticket",
                       last.ticket_id)>>
       /\ ~last.raised /\ ~last.aborted

\* An Apply click whose tracker request raised: the row is there and both
\* events are logged.
C17_Witness ==
    /\ AppliedButNotUpdated /\ last.tracker = "exception"
    /\ Len(agent_feedback) = Len(last.feedback) + 1
    /\ last.log_db = "ok"
    /\ Len(system_logs) >= 2
    /\ system_logs[Len(system_logs) - 1].status = "ERROR"
    /\ system_logs[Len(system_logs)].status = "SUCCESS"

-----------------------------------------------------------------------------
(* jira_client.py: _classify_ticket.  A text is a sequence of characters,   *)
(* as is a keyword.                                                         *)

Uppercase ==
    <<"A", "B", "C", "D", "E", "F", "G", "H", "I", "J", "K", "L", "M",
      "N", "O", "P", "Q", "R", "S", "T", "U", "V", "W", "X", "Y", "Z">>

Lowercase ==
    <<"a", "b", "c", "d", "e", "f", "g", "h", "i", "j", "k", "l", "m",
      "n", "o", "p", "q", "r", "s", "t", "u", "v", "w", "x", "y", "z">>

\* str.lower() and str.upper() of one character
lower_char(c) ==
    IF \E i \in 1..Len(Uppercase) : Uppercase[i] = c
    THEN Lowercase[CHOOSE i \in 1..Len(Uppercase) : Uppercase[i] = c]
    ELSE c

upper_char(c) ==
    IF \E i \in 1..Len(Lowercase) : Lowercase[i] = c
    THEN Uppercase[CHOOSE i \in 1..Len(Lowercase) : Lowercase[i] = c]
    ELSE c

\* text.lower() and text.upper()
lower(text) == [i \in 1..Len(text) |-> lower_char(text[i])]
upper(text) == [i \in 1..Len(text) |-> upper_char(text[i])]

\* word in text
Contains(text, word) ==
    \E i \in 0..(Len(text) - Len(word)) :
       \A j \in 1..Len(word) : text[i + j] = word[j]

\* any(word in text for word in words)
any_in(text, words) == \E word \in words : Contains(text, word)

HardwareWords ==
    {<<"c", "o", "m", "p", "u", "t", "e", "r">>,
     <<"l", "a", "p", "t", "o", "p">>,
     <<"d", "e", "s", "k", "t", "o", "p">>,
     <<"m", "o", "n", "i", "t", "o", "r">>,
     <<"p", "r", "i", "n", "t", "e", "r">>,
     <<"h", "a", "r", "d", "w", "a", "r", "e">>,
     <<"u", "s", "b">>,
     <<"m", "o", "u", "s", "e">>,
     <<"k", "e", "y", "b", "o", "a", "r", "d">>}

SoftwareWords ==
    {<<"s", "o", "f", "t", "w", "a", "r", "e">>,
     <<"a", "p", "p", "l", "i", "c", "a", "t", "i", "o", "n">>,
     <<"p", "r", "o", "g", "r", "a", "m">>,
     <<"i", "n", "s", "t", "a", "l", "l">>,
     <<"u", "p", "d", "a", "t", "e">>,
     <<"o", "f", "f", "i", "c", "e">>,
     <<"m", "i", "c", "r", "o", "s", "o", "f", "t">>,
     <<"l", "i", "c", "e", "n", "s", "e">>}

NetworkWords ==
    {<<"n", "e", "t", "w", "o", "r", "k">>,
     <<"w", "i", "f", "i">>,
     <<"i", "n", "t", "e", "r", "n", "e", "t">>,
     <<"c", "o", "n", "n", "e", "c", "t", "i", "o", "n">>,
     <<"v", "p", "n">>,
     <<"e", "m", "a", "i", "l">>,
     <<"s", "m", "t", "p">>}

SecurityWords ==
    {<<"p", "a", "s", "s", "w", "o", "r", "d">>,
     <<"l", "o", "g", "i", "n">>,
     <<"a", "c", "c", "e", "s", "s">>,
     <<"s", "e", "c", "u", "r", "i", "t", "y">>,
     <<"a", "c", "c", "o", "u", "n", "t">>,
     <<"l", "o", "c", "k", "e", "d">>,
     <<"a", "u", "t", "h", "e", "n", "t", "i", "c", "a", "t", "i", "o", "n">>}

TelecomWords ==
    {<<"p", "h", "o", "n", "e">>,
     <<"t", "e", "l", "e", "p", "h", "o", "n", "e">>,
     <<"c", "a", "l", "l">>,
     <<"v", "o", "i", "p">>}

\* _classify_ticket on the text as it is given, without lower().
_classify_ticket_CaseSensitive(text) ==
    IF any_in(text, HardwareWords) THEN "Hardware"
    ELSE IF any_in(text, SoftwareWords) THEN "Software"
    ELSE IF any_in(text, NetworkWords) THEN "Network"
    ELSE IF any_in(text, SecurityWords) THEN "Security"
    ELSE IF any_in(text, TelecomWords) THEN "Telecom"
    ELSE "General"

\* _classify_ticket with the Security bucket tried before the Network one.
_classify_ticket_SecurityFirst(text) ==
    IF any_in(lower(text), HardwareWords) THEN "Hardware"
    ELSE IF any_in(lower(text), SoftwareWords) THEN "Software"
    ELSE IF any_in(lower(text), SecurityWords) THEN "Security"
    ELSE IF any_in(lower(text), NetworkWords) THEN "Network"
    ELSE IF any_in(lower(text), TelecomWords) THEN "Telecom"
    ELSE "General"

\* JiraClient._classify_ticket(text)
_classify_ticket(text) ==
    IF any_in(lower(text), HardwareWords) THEN "Hardware"
    ELSE IF any_in(lower(text), SoftwareWords) THEN "Software"
    ELSE IF any_in(lower(text), NetworkWords) THEN "Network"
    ELSE IF any_in(lower(text), SecurityWords) THEN "Security"
    ELSE IF any_in(lower(text), TelecomWords) THEN "Telecom"
    ELSE "General"

-----------------------------------------------------------------------------
(* jira_client.py: the demo tickets                                         *)

\* The tickets of _get_demo_tickets before they are classified; created and
\* updated are minutes before datetime.now().
DemoFixture ==
    <<[id |-> "DEMO-001",
       summary |->
         <<"L", "a", "p", "t", "o", "p", " ", "w", "o", "n", "'", "t",
         " ", "s", "t", "a", "r", "t", " ", "a", "f", "t", "e", "r", " ",
         "W", "i", "n", "d", "o", "w", "s", " ", "u", "p", "d", "a", "t",
         "e">>,
       description |->
         <<"U", "s", "e", "r", " ", "r", "e", "p", "o", "r", "t", "s",
         " ", "l", "a", "p", "t", "o", "p", " ", "s", "h", "o", "w", "s",
         " ", "b", "l", "a", "c", "k", " ", "s", "c", "r", "e", "e", "n",
         " ", "a", "f", "t", "e", "r", " ", "l", "a", "t", "e", "s", "t",
         " ", "W", "i", "n", "d", "o", "w", "s", " ", "u", "p", "d", "a",
         "t", "e", ".", " ", "P", "o", "w", "e", "r", " ", "b", "u", "t",
         "t", "o", "n", " ", "w", "o", "r", "k", "s", " ", "b", "u", "t",
         " ", "n", "o", " ", "d", "i", "s", "p", "l", "a", "y", ".">>,
       priority |-> "High", status |-> "Open", reporter |-> "John Smith",
       created |-> 120, updated |-> 60],
      [id |-> "DEMO-002",
       summary |->
         <<"C", "a", "n", "n", "o", "t", " ", "a", "c", "c", "e", "s",
         "s", " ", "s", "h", "a", "r", "e", "d", " ", "n", "e", "t", "w",
         "o", "r", "k", " ", "d", "r", "i", "v", "e">>,
       description |->
         <<"E", "m", "p", "l", "o", "y", "e", "e", " ", "c", "a", "n",
         "n", "o", "t", " ", "c", "o", "n", "n", "e", "c", "t", " ", "t",
         "o", " ", "s", "h", "a", "r", "e", "d", " ", "d", "r", "i", "v",
         "e", " ", "\\", "s", "e", "r", "v", "e", "r", "\\", "f", "i",
         "n", "a", "n", "c", "e", ".", " ", "G", "e", "t", "s", " ", "a",
         "c", "c", "e", "s", "s", " ", "d", "e", "n", "i", "e", "d", " ",
         "e", "r", "r", "o", "r", ".">>,
       priority |-> "Medium", status |-> "In Progress", reporter |-> "Jane Doe",
       created |-> 240, updated |-> 180],
      [id |-> "DEMO-003",
       summary |->
         <<"O", "f", "f", "i", "c", "e", " ", "p", "r", "i", "n", "t",
         "e", "r", " ", "n", "o", "t", " ", "w", "o", "r", "k", "i", "n",
         "g">>,
       description |->
         <<"M", "a", "i", "n", " ", "o", "f", "f", "i", "c", "e", " ",
         "p", "r", "i", "n", "t", "e", "r", " ", "s", "h", "o", "w", "i",
         "n", "g", " ", "e", "r", "r", "o", "r", " ", "c", "o", "d", "e",
         " ", "E", "0", "0", "1", ".", " ", "P", "a", "p", "e", "r", " ",
         "j", "a", "m", "s", " ", "c", "l", "e", "a", "r", "e", "d", " ",
         "b", "u", "t", " ", "s", "t", "i", "l", "l", " ", "n", "o", "t",
         " ", "p", "r", "i", "n", "t", "i", "n", "g", ".">>,
       priority |-> "Low", status |-> "Open", reporter |-> "Mike Johnson",
       created |-> 1440, updated |-> 480],
      [id |-> "DEMO-004",
       summary |->
         <<"E", "m", "a", "i", "l", " ", "a", "c", "c", "o", "u", "n",
         "t", " ", "l", "o", "c", "k", "e", "d", " ", "o", "u", "t">>,
       description |->
         <<"U", "s", "e", "r", " ", "l", "o", "c", "k", "e", "d", " ",
         "o", "u", "t", " ", "o", "f", " ", "e", "m", "a", "i", "l", " ",
         "a", "c", "c", "o", "u", "n", "t", " ", "a", "f", "t", "e", "r",
         " ", "m", "u", "l", "t", "i", "p", "l", "e", " ", "f", "a", "i",
         "l", "e", "d", " ", "l", "o", "g", "i", "n", " ", "a", "t", "t",
         "e", "m", "p", "t", "s", ".", " ", "N", "e", "e", "d", "s", " ",
         "p", "a", "s", "s", "w", "o", "r", "d", " ", "r", "e", "s", "e",
         "t", ".">>,
       priority |-> "High", status |-> "To Do", reporter |-> "Sarah Wilson",
       created |-> 360, updated |-> 300],
      [id |-> "DEMO-005",
       summary |->
         <<"V", "P", "N", " ", "c", "o", "n", "n", "e", "c", "t", "i",
         "o", "n", " ", "i", "s", "s", "u", "e", "s">>,
       description |->
         <<"R", "e", "m", "o", "t", "e", " ", "e", "m", "p", "l", "o",
         "y", "e", "e", " ", "c", "a", "n", "n", "o", "t", " ", "e", "s",
         "t", "a", "b", "l", "i", "s", "h", " ", "V", "P", "N", " ", "c",
         "o", "n", "n", "e", "c", "t", "i", "o", "n", ".", " ", "T", "i",
         "m", "e", "s", " ", "o", "u", "t", " ", "d", "u", "r", "i", "n",
         "g", " ", "a", "u", "t", "h", "e", "n", "t", "i", "c", "a", "t",
         "i", "o", "n", ".">>,
       priority |-> "Critical", status |-> "Open", reporter |-> "David Brown",
       created |-> 30, updated |-> 15],
      [id |-> "DEMO-006",
       summary |->
         <<"M", "i", "c", "r", "o", "s", "o", "f", "t", " ", "O", "f",
         "f", "i", "c", "e", " ", "l", "i", "c", "e", "n", "s", "e", " ",
         "e", "x", "p", "i", "r", "e", "d">>,
       description |->
         <<"U", "s", "e", "r", " ", "g", "e", "t", "t", "i", "n", "g",
         " ", "a", "c", "t", "i", "v", "a", "t", "i", "o", "n", " ", "e",
         "r", "r", "o", "r", "s", " ", "w", "h", "e", "n", " ", "o", "p",
         "e", "n", "i", "n", "g", " ", "W", "o", "r", "d", " ", "a", "n",
         "d", " ", "E", "x", "c", "e", "l", ".", " ", "L", "i", "c", "e",
         "n", "s", "e", " ", "n", "e", "e", "d", "s", " ", "r", "e", "n",
         "e", "w", "a", "l", ".">>,
       priority |-> "Medium", status |-> "In Progress", reporter |-> "Lisa Anderson",
       created |-> 720, updated |-> 600],
      [id |-> "DEMO-007",
       summary |->
         <<"S", "l", "o", "w", " ", "c", "o", "m", "p", "u", "t", "e",
         "r", " ", "p", "e", "r", "f", "o", "r", "m", "a", "n", "c", "e">>,
       description |->
         <<"E", "m", "p", "l", "o", "y", "e", "e", " ", "r", "e", "p",
         "o", "r", "t", "s", " ", "c", "o", "m", "p", "u", "t", "e", "r",
         " ", "i", "s", " ", "v", "e", "r", "y", " ", "s", "l", "o", "w",
         ",", " ", "t", "a", "k", "e", "s", " ", "1", "0", "+", " ", "m",
         "i", "n", "u", "t", "e", "s", " ", "t", "o", " ", "b", "o", "o",
         "t", " ", "u", "p", " ", "a", "n", "d", " ", "p", "r", "o", "g",
         "r", "a", "m", "s", " ", "f", "r", "e", "e", "z", "e", " ", "f",
         "r", "e", "q", "u", "e", "n", "t", "l", "y", ".">>,
       priority |-> "Medium", status |-> "Open", reporter |-> "Robert Chen",
       created |-> 2880, updated |-> 1440],
      [id |-> "DEMO-008",
       summary |->
         <<"C", "a", "n", "n", "o", "t", " ", "s", "e", "n", "d", " ",
         "e", "m", "a", "i", "l", "s">>,
       description |->
         <<"U", "s", "e", "r", " ", "c", "a", "n", " ", "r", "e", "c",
         "e", "i", "v", "e", " ", "e", "m", "a", "i", "l", "s", " ", "b",
         "u", "t", " ", "c", "a", "n", "n", "o", "t", " ", "s", "e", "n",
         "d", ".", " ", "G", "e", "t", "s", " ", "e", "r", "r", "o", "r",
         ":", " ", "\"", "S", "M", "T", "P", " ", "s", "e", "r", "v",
         "e", "r", " ", "c", "o", "n", "n", "e", "c", "t", "i", "o", "n",
         " ", "f", "a", "i", "l", "e", "d", "\"", ".">>,
       priority |-> "High", status |-> "To Do", reporter |-> "Maria Garcia",
       created |-> 480, updated |-> 420],
      [id |-> "DEMO-009",
       summary |->
         <<"U", "S", "B", " ", "d", "e", "v", "i", "c", "e", "s", " ",
         "n", "o", "t", " ", "r", "e", "c", "o", "g", "n", "i", "z", "e",
         "d">>,
       description |->
         <<"C", "o", "m", "p", "u", "t", "e", "r", " ", "n", "o", "t",
         " ", "r", "e", "c", "o", "g", "n", "i", "z", "i", "n", "g", " ",
         "U", "S", "B", " ", "f", "l", "a", "s", "h", " ", "d", "r", "i",
         "v", "e", "s", " ", "a", "n", "d", " ", "e", "x", "t", "e", "r",
         "n", "a", "l", " ", "h", "a", "r", "d", " ", "d", "r", "i", "v",
         "e", "s", ".", " ", "T", "r", "i", "e", "d", " ", "m", "u", "l",
         "t", "i", "p", "l", "e", " ", "p", "o", "r", "t", "s", ".">>,
       priority |-> "Low", status |-> "Open", reporter |-> "Kevin Martinez",
       created |-> 4320, updated |-> 2880],
      [id |-> "DEMO-010",
       summary |->
         <<"P", "h", "o", "n", "e", " ", "s", "y", "s", "t", "e", "m",
         " ", "d", "o", "w", "n">>,
       description |->
         <<"O", "f", "f", "i", "c", "e", " ", "p", "h", "o", "n", "e",
         " ", "s", "y", "s", "t", "e", "m", " ", "c", "o", "m", "p", "l",
         "e", "t", "e", "l", "y", " ", "d", "o", "w", "n", ".", " ", "N",
         "o", " ", "i", "n", "c", "o", "m", "i", "n", "g", " ", "o", "r",
         " ", "o", "u", "t", "g", "o", "i", "n", "g", " ", "c", "a", "l",
         "l", "s", " ", "p", "o", "s", "s", "i", "b", "l", "e", ".">>,
       priority |-> "Critical", status |-> "In Progress", reporter |-> "Amanda Taylor",
       created |-> 45, updated |-> 30]>>

\* _get_demo_tickets, lines 242-243: the fixture with its categories
demo_tickets ==
    [i \in 1..Len(DemoFixture) |->
        [id |-> DemoFixture[i].id,
         summary |-> DemoFixture[i].summary,
         description |-> DemoFixture[i].description,
         priority |-> DemoFixture[i].priority,
         status |-> DemoFixture[i].status,
         reporter |-> DemoFixture[i].reporter,
         created |-> DemoFixture[i].created,
         updated |-> DemoFixture[i].updated,
         category |-> _classify_ticket(DemoFixture[i].summary \o <<" ">>
                                       \o DemoFixture[i].description)]]

\* min(a, b)
PyMin(a, b) == IF a <= b THEN a ELSE b

\* JiraClient._get_demo_tickets(max_results), for max_results >= 0
_get_demo_tickets(max_results) ==
    JiraOk(SubSeq(demo_tickets, 1, PyMin(max_results, Len(demo_tickets))))

\* JiraClient.__init__, line 20: self.demo_mode
demo_mode(cfg) == ~(cfg.url # "" /\ cfg.email # "" /\ cfg.api_token # "")

\* The configurations: each setting is given or empty (config.py:8-10)
Configs == [url : {"", "set"}, email : {"", "set"}, api_token : {"", "set"}]

\* How the tracker answers a search: "ok" 200 to the first request,
\* "fallback" 200 to the second only, "http_error" 200 to neither,
\* "exception" the first request raises.
SearchOutcomes == {"ok", "fallback", "http_error", "exception"}

\* What the tracker holds: issues with short texts.  An issue may come
\* without a description.
LiveIssues ==
    {[id |-> "IT-1", summary |-> <<"V", "P", "N">>,
      description |-> <<"s", "l", "o", "w">>,
      priority |-> "High", status |-> "Open", reporter |-> "John Smith",
      created |-> 120, updated |-> 60],
     [id |-> "IT-2", summary |-> <<"O", "f", "f", "i", "c", "e">>,
      description |-> <<"p", "a", "s", "s", "w", "o", "r", "d">>,
      priority |-> "Medium", status |-> "To Do", reporter |-> "Jane Doe",
      created |-> 240, updated |-> 180],
     [id |-> "IT-3", summary |-> <<"c", "a", "l", "l">>,
      description |-> <<>>,
      priority |-> "Low", status |-> "Open", reporter |-> "Unknown",
      created |-> 30, updated |-> 15]}

\* _process_tickets, lines 270-280: the ticket of one issue
process_issue(issue) ==
    [id |-> issue.id,
     summary |-> issue.summary,
     description |-> issue.description,
     priority |-> issue.priority,
     status |-> issue.status,
     reporter |-> issue.reporter,
     created |-> issue.created,
     updated |-> issue.updated,
     category |-> _classify_ticket(issue.summary \o <<" ">>
                                   \o issue.description)]

\* JiraClient._process_tickets(issues)
_process_tickets(issues) ==
    [i \in 1..Len(issues) |-> process_issue(issues[i])]

\* fetch_tickets without the demo branch.
JiraClient_fetch_tickets_AlwaysAsk(cfg, max_results, tracker, issues) ==
    IF tracker \in {"ok", "fallback"}
    THEN [result |-> JiraOk(_process_tickets(issues)),
          requests |-> IF tracker = "ok" THEN 1 ELSE 2]
    ELSE [result |-> JiraFailed,
          requests |-> IF tracker = "exception" THEN 1 ELSE 2]

\* JiraClient.fetch_tickets(days_back, max_results): what it returns and how
\* many requests it sends; issues is what the tracker finds.
JiraClient_fetch_tickets(cfg, max_results, tracker, issues) ==
    IF demo_mode(cfg)
    THEN [result |-> _get_demo_tickets(max_results), requests |-> 0]
    ELSE IF tracker \in {"ok", "fallback"}
    THEN [result |-> JiraOk(_process_tickets(issues)),
          requests |-> IF tracker = "ok" THEN 1 ELSE 2]
    ELSE [result |-> JiraFailed,
          requests |-> IF tracker = "exception" THEN 1 ELSE 2]

-----------------------------------------------------------------------------
(* The classifier on its own                                                *)

\* The number of fragments of a text
MaxFragments == 2

\* Pieces of ticket texts, in several spellings
Fragments ==
    {<<"l", "a", "p", "t", "o", "p">>, <<"L", "A", "P", "T", "O", "P">>,
     <<"L", "a", "p">>, <<"t", "o", "p">>,
     <<"v", "p", "n">>, <<"V", "P", "N">>, <<"V", "p">>, <<"n">>,
     <<"O", "f", "f", "i", "c", "e">>,
     <<"p", "a", "s", "s", "w", "o", "r", "d">>,
     <<"P", "h", "o", "n", "e">>, <<"c", "a", "l", "l">>,
     <<"s", "l", "o", "w">>, <<" ">>}

RECURSIVE Texts(_)
Texts(n) ==
    IF n = 0 THEN {<<>>}
    ELSE Texts(n - 1) \cup {t \o f : t \in Texts(n - 1), f \in Fragments}

InitClassify ==
    /\ model = "None"
    /\ IdleBatch /\ IdleParser /\ IdleStore /\ IdleSession
    /\ config = NoConfig /\ requests = 0 /\ fetched = NoFetch
    /\ ticket_text \in Texts(MaxFragments)
    /\ classified = "none"

\* One call of _classify_ticket.
Classify ==
    /\ classified = "none"
    /\ classified' = _classify_ticket(ticket_text)
    /\ UNCHANGED <<config, requests, fetched, ticket_text, parserVars,
                   analyzerVars, storeVars, sessionVars>>

NextClassify == Classify

SpecClassify == InitClassify /\ [][NextClassify]_vars

\* The buckets in the order of the specification
Buckets ==
    <<[name |-> "Hardware", words |-> HardwareWords],
      [name |-> "Software", words |-> SoftwareWords],
      [name |-> "Network", words |-> NetworkWords],
      [name |-> "Security", words |-> SecurityWords],
      [name |-> "Telecom", words |-> TelecomWords]>>

\* The buckets that have a keyword in the text, whatever its case
Hits(text) ==
    {i \in 1..Len(Buckets) : any_in(lower(text), Buckets[i].words)}

FirstHit(text) == CHOOSE i \in Hits(text) : \A j \in Hits(text) : i <= j

\* C18: _classify_ticket is a function of its text alone, indifferent to
\* the case of the text; it answers the first of Hardware, Software,
\* Network, Security, Telecom that has a keyword contained in the text, and
\* General when none has.
C18_FirstBucketWins ==
    classified # "none" =>
       /\ classified = IF Hits(ticket_text) = {} THEN "General"
                       ELSE Buckets[FirstHit(ticket_text)].name
       /\ classified = _classify_ticket(upper(ticket_text))
       /\ classified = _classify_ticket(lower(ticket_text))

\* A text in capitals with keywords of two buckets: "VPN" then "LAPTOP".
C18_Witness ==
    /\ ticket_text = <<"V", "P", "N", "L", "A", "P", "T", "O", "P">>
    /\ Hits(ticket_text) = {1, 3}
    /\ classified = "Hardware"

HasLaptop == Contains(lower(ticket_text), <<"l", "a", "p", "t", "o", "p">>)
HasVpn == Contains(lower(ticket_text), <<"v", "p", "n">>)

\* C19 as stated: every text containing "laptop" is Hardware and every text
\* containing "vpn" is Network.
C19_LaptopAndVpn ==
    classified # "none" =>
       /\ HasLaptop => classified = "Hardware"
       /\ HasVpn => classified = "Network"

\* C19: every text containing "laptop" is Hardware; every text containing
\* "vpn" and no keyword of the Hardware or Software bucket is Network.
C19_VpnAfterHardwareAndSoftware ==
    classified # "none" =>
       /\ HasLaptop => classified = "Hardware"
       /\ (/\ HasVpn
           /\ ~any_in(lower(ticket_text), HardwareWords)
           /\ ~any_in(lower(ticket_text), SoftwareWords))
          => classified = "Network"

\* "VPN" with a Security keyword after it is Network.
C19_Witness ==
    /\ ticket_text = <<"V", "P", "N", "p", "a", "s", "s", "w", "o", "r", "d">>
    /\ classified = "Network"

-----------------------------------------------------------------------------
(* The tracker client on its own                                            *)

\* The largest max_results asked for, besides the default
MaxResults == 11

\* fetch_tickets(self, days_back=30, max_results=50)
DefaultMaxResults == 50

\* The number of fetches
MaxSearches == 2

InitTracker ==
    /\ model \in {"None", model_names[1]}
    /\ IdleBatch /\ IdleParser /\ IdleStore /\ IdleSession
    /\ config \in Configs
    /\ requests = 0 /\ fetched = NoFetch
    /\ ticket_text = <<>> /\ classified = "none"

\* One call of JiraClient.fetch_tickets, before anything is analyzed.
JiraFetch ==
    /\ runs < MaxSearches /\ batch = <<>>
    /\ \E max_results \in (0..MaxResults) \cup {DefaultMaxResults},
          tracker \in SearchOutcomes :
       \E issues \in {b \in DistinctBatches(LiveIssues, MaxFetch) :
                         Len(b) <= max_results} :
       \E r \in {JiraClient_fetch_tickets(config, max_results, tracker, issues)} :
          /\ fetched' = r.result
          /\ requests' = requests + r.requests
          /\ last' = [NoRun EXCEPT
                        !.op = "JiraClient.fetch_tickets",
                        !.count = max_results, !.tracker = tracker]
    /\ runs' = runs + 1
    /\ UNCHANGED <<config, ticket_text, classified, tickets, processed,
                   system_logs, clock, parserVars, analyzerVars, sessionVars>>

\* The tickets fetched last are handed to analyze_tickets_batch, once; the
\* backend answers none of them, so every analysis is the fallback one.
AnalyzeFetched ==
    /\ fetched.success /\ fetched.tickets # <<>>
    /\ batch = <<>>
    /\ \E o \in {Raises, Text(<<>>)} :
       \E r \in {analyze_tickets_batch(model, fetched.tickets,
                                        [i \in 1..Len(fetched.tickets) |-> o])} :
          /\ batch' = fetched.tickets
          /\ backend' = [i \in 1..Len(fetched.tickets) |-> o]
          /\ results' = r.results
          /\ calls' = r.calls
          /\ escaped' = r.raised
    /\ UNCHANGED <<model, storeVars, parserVars, sessionVars, trackerVars>>

NextTracker == JiraFetch \/ AnalyzeFetched

SpecTracker == InitTracker /\ [][NextTracker]_vars

DemoFetched == last.op = "JiraClient.fetch_tickets" /\ demo_mode(config)

\* The categories of the tickets of a result
CategoriesOf(result) ==
    {result.tickets[i].category : i \in 1..Len(result.tickets)}

\* C20: in demo mode (URL, email or token absent) fetch_tickets sends no
\* request to the tracker and returns success with the fixture; asked for
\* ten tickets or more it returns the ten fixture tickets, and their
\* categories cover Hardware, Software, Network, Security and General.
C20_DemoFixture ==
    DemoFetched =>
       /\ requests = 0
       /\ fetched.success
       /\ fetched.count = Len(fetched.tickets)
       /\ last.count >= 10 =>
             /\ fetched.tickets = demo_tickets
             /\ Len(fetched.tickets) = 10
             /\ {"Hardware", "Software", "Network", "Security", "General"}
                   \subseteq CategoriesOf(fetched)

\* What holds of demo mode: no request, success, the first max_results
\* fixture tickets, ten when asked for ten or more.
C20_FixtureWithoutRequest ==
    DemoFetched =>
       /\ requests = 0
       /\ fetched = JiraOk(SubSeq(demo_tickets, 1, PyMin(last.count, 10)))
       /\ last.count >= 10 => Len(fetched.tickets) = 10

\* The categories the fixture has
C20_FixtureCategories ==
    CategoriesOf(JiraOk(demo_tickets)) = {"Hardware", "Software", "Network"}

-----------------------------------------------------------------------------
(* ai_analyzer.py: the probes of AIAnalyzer.__init__, one at a time.  Here  *)
(* backend[i] is how the probe of model_names[i] ends and calls counts the  *)
(* probes made; pc is "configure", "unconfigured", "probing" or "ready".    *)

\* if response.text, for a call that returned
responds(outcome) == outcome.kind = "text" /\ outcome.text # <<>>

\* One pass of the loop without its try block: an exception leaves
\* _initialize_model and __init__ sets model = None.
probe_NoTry(name, outcome) ==
    IF responds(outcome) THEN [model |-> name, stop |-> TRUE]
    ELSE [model |-> "None", stop |-> outcome.kind = "raise"]

\* _initialize_model, lines 26-35: one pass of the loop
probe(name, outcome) ==
    IF responds(outcome) THEN [model |-> name, stop |-> TRUE]
    ELSE [model |-> "None", stop |-> FALSE]

InitProbes ==
    /\ model = "None"
    /\ batch = <<>> /\ results = <<>> /\ calls = 0 /\ escaped = FALSE
    /\ backend \in [1..Len(model_names) -> ProbeOutcomes]
    /\ raw = <<>> /\ parsed = _create_fallback_analysis /\ pc = "configure"
    /\ IdleStore /\ IdleSession /\ IdleTracker

\* __init__, lines 9-22: genai.configure returns or raises.
Configure ==
    /\ pc = "configure"
    /\ \E configure_ok \in BOOLEAN :
          pc' = IF configure_ok THEN "probing" ELSE "unconfigured"
    /\ UNCHANGED <<model, batch, backend, results, calls, escaped, raw, parsed,
                   storeVars, sessionVars, trackerVars>>

\* _initialize_model: the next probe; after the last one the loop ends with
\* return None.
Probe ==
    /\ pc = "probing" /\ calls < Len(model_names)
    /\ \E r \in {probe(model_names[calls + 1], backend[calls + 1])} :
          /\ model' = r.model
          /\ pc' = IF r.stop \/ calls + 1 = Len(model_names)
                   THEN "ready" ELSE "probing"
    /\ calls' = calls + 1
    /\ UNCHANGED <<batch, backend, results, escaped, raw, parsed,
                   storeVars, sessionVars, trackerVars>>

NextProbes == Configure \/ Probe

SpecProbes == InitProbes /\ [][NextProbes]_vars

\* C21: the probes are made in the order of model_names; the first model
\* whose probe returns a non-empty text is adopted and no later one is
\* probed; no model is adopted exactly when every probe fails, whether it
\* raises or returns an empty text, and then all of them were probed.
C21_FirstResponding ==
    /\ escaped = FALSE
    /\ pc = "probing" =>
          /\ model = "None"
          /\ \A j \in 1..calls : ~responds(backend[j])
    /\ pc = "ready" =>
          /\ model = AIAnalyzer_init(TRUE, backend)
          /\ (model = "None") <=>
                (\A i \in 1..Len(model_names) : ~responds(backend[i]))
          /\ model = "None" => calls = Len(model_names)
          /\ model # "None" =>
                /\ model = model_names[calls]
                /\ responds(backend[calls])
                /\ \A j \in 1..(calls - 1) : ~responds(backend[j])

\* The first probe raised, the second returned an empty text, the third
\* answered: the third model is adopted and the last two were not probed.
C21_Witness ==
    /\ pc = "ready" /\ calls = 3 /\ model = model_names[3]
    /\ backend[1] = Raises /\ backend[2] = Text(<<>>)

-----------------------------------------------------------------------------
(* A configured tracker that fails                                          *)

\* A fetch from a configured tracker that met a transport error or answers
\* other than 200
LiveFetchFailed ==
    /\ last.op = "JiraClient.fetch_tickets" /\ ~demo_mode(config)
    /\ last.tracker \in {"http_error", "exception"}

\* C22: a fetch from a configured tracker that meets a transport error or
\* non-2xx answers does not raise and falls back to the demo data: it
\* returns success with the demo tickets.
C22_FallsBackToDemo ==
    LiveFetchFailed =>
       /\ fetched.success
       /\ fetched.tickets # <<>>
       /\ fetched = _get_demo_tickets(last.count)

\* What the code does: the failure is returned, without tickets.
C22_FailureReturned ==
    LiveFetchFailed => fetched = JiraFailed

-----------------------------------------------------------------------------
(* The classifier tags fetched tickets and fallback analyses                *)

\* summary + ' ' + description
TextOf(ticket) == ticket.summary \o <<" ">> \o ticket.description

\* Every ticket of the result fetched last carries the classifier's category.
FetchedAreTagged ==
    \A i \in 1..Len(fetched.tickets) :
       fetched.tickets[i].category = _classify_ticket(TextOf(fetched.tickets[i]))

\* C23: every ticket returned by fetch_tickets, demo or live, carries
\* category = _classify_ticket(summary + ' ' + description), and the
\* category of the fallback analysis produced for a ticket is the
\* classifier's category for that ticket's text.
C23_ClassifierTagsBoth ==
    /\ FetchedAreTagged
    /\ \A i \in 1..Len(results) :
          results[i].analysis = _create_fallback_analysis =>
             results[i].analysis.category = Str(_classify_ticket(TextOf(batch[i])))

\* What the code does: fetched tickets are tagged, and a fallback analysis
\* says General whatever the ticket's text.
C23_FallbackIsGeneral ==
    /\ FetchedAreTagged
    /\ \A i \in 1..Len(results) :
          /\ results[i].ticket_id = batch[i].id
          /\ results[i].analysis = _create_fallback_analysis
          /\ results[i].analysis.category = Str("General")

-----------------------------------------------------------------------------
(* One analyze run, a ticket at a time: analyze_tickets_batch appends one   *)
(* result per pass of its loop, then analyze_tickets saves one result per   *)
(* pass of its loop.  Here pc is "analyzing", "saving", "done" or "failed"  *)
(* (an exception reached the except clause of analyze_tickets).             *)

\* enumerate(tickets) with the tickets taken from the last one.
nth_ticket_Reversed(ts, i) == ts[Len(ts) - i]

\* for i, ticket in enumerate(tickets): the ticket of index i (from 0)
nth_ticket(ts, i) == ts[i + 1]

\* progress_bar.progress((i + 1) / len(tickets)), as a pair
progress_fraction(ts, i) == <<i + 1, Len(ts)>>

InitOrder ==
    /\ model \in {"None", model_names[1]}
    /\ batch \in DistinctBatches(SampleTickets, MaxBatch) \ {<<>>}
    /\ backend \in [1..Len(batch) -> PipelineBackend]
    /\ results = <<>> /\ calls = 0 /\ escaped = FALSE
    /\ raw = <<>> /\ parsed = _create_fallback_analysis /\ pc = "analyzing"
    /\ IdleSession /\ IdleTracker
    /\ tickets = {batch[i] : i \in 1..Len(batch)}
    /\ processed = <<>> /\ system_logs = <<>> /\ clock = 0 /\ runs = 0
    /\ \E saves \in [1..Len(batch) -> SaveOutcomes] :
          last = [NoRun EXCEPT !.op = "analyze_tickets", !.before = tickets,
                               !.saves = saves]

\* analyze_tickets_batch, lines 75-78: one pass of the loop.
AnalyzeOne ==
    /\ pc = "analyzing" /\ Len(results) < Len(batch)
    /\ \E i \in {Len(results)} :
       \E r \in {analyze_ticket(model, nth_ticket(batch, i), backend[i + 1])} :
          /\ results' = Append(results, r.result)
          /\ calls' = calls + (IF r.called THEN 1 ELSE 0)
          /\ last' = [last EXCEPT
                        !.progress = Append(@, progress_fraction(batch, i))]
          /\ pc' = IF i + 1 = Len(batch) THEN "saving" ELSE "analyzing"
    /\ UNCHANGED <<model, batch, backend, escaped, raw, parsed, tickets,
                   processed, system_logs, clock, runs, sessionVars,
                   trackerVars>>

\* analyze_tickets, lines 261-268: one pass of the loop over the results.
\* runs counts the results handled.
SaveOne ==
    /\ pc = "saving" /\ runs < Len(results)
    /\ \E s \in {save_processed_ticket(processed, results[runs + 1].ticket_id,
                                       results[runs + 1].analysis, clock,
                                       last.saves[runs + 1])} :
          /\ processed' = s.rows
          /\ last' = [last EXCEPT
                        !.raised = s.raised,
                        !.success_count = @ + (IF s.ret THEN 1 ELSE 0),
                        !.error_count =
                            @ + (IF ~s.ret /\ ~s.raised THEN 1 ELSE 0)]
          /\ pc' = IF s.raised THEN "failed"
                   ELSE IF runs + 1 = Len(results) THEN "done" ELSE "saving"
    /\ runs' = runs + 1
    /\ UNCHANGED <<model, batch, backend, results, calls, escaped, raw,
                   parsed, tickets, system_logs, clock, sessionVars,
                   trackerVars>>

NextOrder == AnalyzeOne \/ SaveOne

SpecOrder == InitOrder /\ [][NextOrder]_vars

\* The tickets whose save has been attempted and has added a row, in the
\* order of the batch
RECURSIVE SavedSoFar(_)
SavedSoFar(k) ==
    IF k = 0 THEN <<>>
    ELSE IF last.saves[k] = "ok" THEN Append(SavedSoFar(k - 1), batch[k].id)
    ELSE SavedSoFar(k - 1)

\* C24: the i-th result belongs to the i-th ticket of the batch; no save is
\* attempted before every ticket of the batch is analyzed; the results are
\* saved in the order of the batch; after the i-th ticket (from 0) the
\* progress reported is (i + 1)/n, which ends at n/n.
C24_InOrder ==
    /\ \A i \in 1..Len(results) : results[i].ticket_id = batch[i].id
    /\ runs > 0 \/ processed # <<>> => Len(results) = Len(batch)
    /\ [i \in 1..Len(processed) |-> processed[i].ticket_id]
          = SavedSoFar(IF pc = "failed" THEN runs - 1 ELSE runs)
    /\ Len(last.progress) = Len(results)
    /\ \A i \in 1..Len(last.progress) : last.progress[i] = <<i, Len(batch)>>
    /\ pc \in {"saving", "done", "failed"} =>
          /\ last.progress[Len(last.progress)] = <<Len(batch), Len(batch)>>
          /\ results = analyze_tickets_batch(model, batch, backend).results
          /\ last.progress = analyze_tickets_batch(model, batch, backend).progress

\* Two tickets analyzed and both saved, in the order of the batch.
C24_Witness ==
    /\ pc = "done" /\ Len(batch) = 2
    /\ Len(processed) = 2
    /\ processed[1].ticket_id = batch[1].id
    /\ processed[2].ticket_id = batch[2].id
    /\ last.progress = <<<<1, 2>>, <<2, 2>>>>

-----------------------------------------------------------------------------
(* The pipeline and the maintenance actions on one store                    *)

InitFrame ==
    /\ model \in PipelineModels
    /\ IdleBatch /\ IdleParser /\ IdleSession /\ IdleTracker
    /\ tickets = StoredTickets(MaxShown)
    /\ processed \in Histories(1)
    /\ clock \in 0..MaxClock
    /\ \A i \in 1..Len(processed) : processed[i].id[3] <= clock
    /\ system_logs = <<>> /\ runs = 0 /\ last = NoRun

\* The "Fetch New Tickets" and "Analyze Tickets" buttons as the first click
\* of a session.
FrameFetch == runs = 0 /\ FetchSample
FrameAnalyze == runs = 0 /\ AnalyzeTickets

NextFrame ==
    \/ FrameFetch \/ FrameAnalyze \/ FeedbackClick
    \/ ResetClick \/ CleanDatabase \/ CleanupOrphans

SpecFrame == InitFrame /\ [][NextFrame]_vars

IsPrefix(a, b) == Len(a) <= Len(b) /\ SubSeq(b, 1, Len(a)) = a

IdsOf(table) == {t.id : t \in table}

MaintenanceActions ==
    {"clean_database", "cleanup_orphaned_processed_tickets", "reset_processed"}

\* C25: no action deletes a row of tickets, agent_feedback or system_logs;
\* fetch_tickets, analyze_tickets and save_feedback, with the log writes
\* they make, leave every existing row of processed_tickets as it is; rows
\* of processed_tickets go only in clean_database,
\* cleanup_orphaned_processed_tickets and reset_processed_tickets.
C25_OnlyMaintenanceDeletes ==
    [][/\ IdsOf(tickets) \subseteq IdsOf(tickets')
       /\ IsPrefix(agent_feedback, agent_feedback')
       /\ IsPrefix(system_logs, system_logs')
       /\ IsPrefix(processed, processed') \/ last'.op \in MaintenanceActions]_vars

\* An analyze run that added a row next to the rows there were.
C25_Witness ==
    /\ last.op = "analyze_tickets"
    /\ last.prior # <<>>
    /\ Len(processed) > Len(last.prior)
    /\ IsPrefix(last.prior, processed)


-----------------------------------------------------------------------------
(* Connections (checked under SpecMaintain)                                 *)

\* C26: every storage operation has released its connection by the time it
\* returns, on success and on failure alike: no connection is left open and
\* no transaction pending.
C26_ConnectionsReleased == last.conn # "open"

\* The methods of Database do release theirs, whatever happens.
C26_DatabaseReleases ==
    last.op \in {"save_processed_ticket", "cleanup_orphaned_processed_tickets"}
        => last.conn # "open"

-----------------------------------------------------------------------------
(* The tracker is updated for applied feedback only (checked under          *)
(* SpecSession)                                                             *)

FeedbackClicked == last.op = "save_feedback"

\* The feedback row of the click is in agent_feedback.
FeedbackRowSaved == Len(agent_feedback) = Len(last.feedback) + 1

TrackerCalled ==
    \E i \in 1..Len(last.trace) : last.trace[i] = "jira.update_ticket_status"

\* C27: during save_feedback the tracker's update_ticket_status is called
\* exactly when the action is "Applied" and the feedback row was saved; for
\* the other actions and whenever saving fails it is not called; and the
\* save always comes before the tracker call.
C27_TrackerOnlyWhenApplied ==
    FeedbackClicked =>
        /\ TrackerCalled <=> (last.action = "Applied" /\ FeedbackRowSaved)
        /\ \A i \in 1..Len(last.trace) :
              last.trace[i] = "jira.update_ticket_status" =>
                  \E j \in 1..(i - 1) : last.trace[j] = "db.save_feedback"

C27_Witness ==
    /\ FeedbackClicked /\ last.action = "Applied" /\ FeedbackRowSaved
    /\ last.trace = <<"db.save_feedback", "jira.update_ticket_status">>
    /\ last.tracker = "rejected"

-----------------------------------------------------------------------------
(* One processed row per ticket (checked under SpecLimit and Spec)          *)

\* No two processed rows are of the same ticket.
OneRowPerTicket(rows) ==
    Cardinality({rows[i].ticket_id : i \in 1..Len(rows)}) = Len(rows)

\* C28: from a store without duplicate processed rows, fetch and analyze
\* runs in which every save succeeds leave every ticket_id with at most one
\* processed row, however many tickets and rows are stored.
C28_NoDuplicateRows ==
    (AnalyzeRan /\ OneRowPerTicket(last.prior)
                /\ ~last.raised /\ last.error_count = 0)
        => OneRowPerTicket(processed)

\* While no more than ProcessedLimit rows are stored and both reads succeed,
\* the runs do keep one row per ticket.
C28_WithinLimit ==
    (AnalyzeRan /\ OneRowPerTicket(last.prior) /\ ~last.raised
                /\ last.error_count = 0 /\ Len(last.prior) <= ProcessedLimit)
        => OneRowPerTicket(processed)

-----------------------------------------------------------------------------
(* Repeated analyze runs: about TicketLimit tickets have been fetched and   *)
(* none has been analyzed yet; no further ticket arrives, "Analyze" is      *)
(* pressed again and again, every read and every save succeeds.             *)

InitRepeat ==
    /\ model \in PipelineModels
    /\ IdleBatch /\ IdleParser /\ IdleSession /\ IdleTracker
    /\ \E n \in (TicketLimit - 1)..(TicketLimit + MaxOver) :
          tickets = StoredTickets(n)
    /\ processed = <<>> /\ system_logs = <<>>
    /\ clock = 0 /\ runs = 0 /\ last = NoRun

\* analyze_tickets, lines 239-253: a run begins.  Every read succeeds and
\* every save of the run will; the button is pressed in a second in which
\* no processed row has been written yet, so that no id is taken.  The
\* backend is out of reach during these runs: an adapter with a model gets
\* an exception from every call and answers with its fallback analysis.
StartRun ==
    /\ pc = "idle"
    /\ \A i \in 1..Len(processed) : processed[i].id[3] < clock
    /\ \E o \in {Raises} :
       \E all_tickets \in get_tickets(tickets, TicketLimit, "ok") :
       \E unprocessed \in
            {unprocessed_tickets(all_tickets,
                get_processed_tickets(processed, tickets, ProcessedLimit,
                                      "ok"))} :
          /\ batch' = unprocessed
          /\ backend' = [i \in 1..Len(unprocessed) |-> o]
          /\ pc' = IF unprocessed = <<>> THEN "idle" ELSE "analyzing"
          /\ last' = [NoRun EXCEPT
                        !.op = "analyze_tickets", !.before = tickets,
                        !.prior = processed, !.now = clock,
                        !.saves = [i \in 1..Len(unprocessed) |-> "ok"],
                        !.messages =
                            IF unprocessed = <<>>
                            THEN <<Message("info",
                                           "No unprocessed tickets found", 0)>>
                            ELSE <<>>]
    /\ results' = <<>> /\ calls' = 0 /\ runs' = 0
    /\ UNCHANGED <<model, escaped, raw, parsed, tickets, processed,
                   system_logs, clock, sessionVars, trackerVars>>

\* analyze_tickets, lines 270-276: the run reports and logs its counts.
FinishRun ==
    /\ pc = "done"
    /\ \E log_db \in LogOutcomes :
       \E s \in {analyze_summary(batch,
                    [results |-> results, calls |-> calls],
                    [rows |-> processed,
                     success_count |-> last.success_count,
                     error_count |-> last.error_count])} :
       \E l \in {log_all(system_logs, s.events, log_db)} :
          /\ system_logs' = l.logs
          /\ last' = [last EXCEPT
                        !.ret = TRUE, !.log_db = log_db,
                        !.aborted = l.raised,
                        !.messages = s.messages, !.events = s.events]
    /\ pc' = "idle"
    /\ UNCHANGED <<model, batch, backend, results, calls, escaped, raw,
                   parsed, tickets, processed, clock, runs, sessionVars,
                   trackerVars>>

\* Time passes between the runs.
Wait == pc = "idle" /\ Tick

NextRepeat == StartRun \/ AnalyzeOne \/ SaveOne \/ FinishRun \/ Wait

\* The button is pressed and the runs go on as long as they can.
SpecRepeat == InitRepeat /\ [][NextRepeat]_vars /\ WF_vars(NextRepeat)

\* Every stored ticket has a processed row.
AllStoredProcessed ==
    IdsOf(tickets) \subseteq {processed[i].ticket_id : i \in 1..Len(processed)}

C29_OldestLeftOut ==
    Cardinality(tickets) > TicketLimit =>
        \A i \in 1..Len(processed) : processed[i].ticket_id # 1

-----------------------------------------------------------------------------
(* The confirmation of a reset (checked under SpecSession)                  *)

\* A successful reset does clear the confirmation: the click after it only
\* asks again.
C30_ClearedByReset ==
    (ResetClicked /\ last.executed /\ last.ret) => ~confirm_reset

\* C30: a full reset executes only when the user's action just before was a
\* reset click too: whatever else the user does after the first click
\* (fetch, analyze, clean, integrity check, feedback) cancels the
\* confirmation, and a successful reset clears it.
C30_ConfirmationCancelled ==
    /\ last.op \notin {"none", "reset_processed"} => ~confirm_reset
    /\ C30_ClearedByReset

=============================================================================
